---- MODULE Spec2Model ----
(***************************************************************************)
(* A model of cargo-vendor-filterer (src/src/main.rs): platform pattern    *)
(* matching and expansion, and the reconciliation of a vendored directory  *)
(* (stub replacement, exclude pruning, checksum repair).                   *)
(*                                                                         *)
(* Strings are TLA+ strings; split, contains and the path component        *)
(* parsing are computed character by character as the Rust code does.      *)
(***************************************************************************)
EXTENDS Integers, Sequences, FiniteSets, TLC

(***************************************************************************)
(* Bounds of the model.                                                    *)
(***************************************************************************)
\* Largest set of platform patterns a configuration holds.
MaxPatterns == 2
\* Largest list of known target triples the target enumeration returns.
MaxTargets == 3
\* Largest number of --exclude-crate-path arguments of a run.
MaxExcludes == 2

(***************************************************************************)
(* Strings.                                                                *)
(***************************************************************************)
Char(s, i) == SubSeq(s, i, i)

\* str::contains(char)
Contains(s, c) == \E i \in 1..Len(s) : Char(s, i) = c

\* str::split(sep).collect(): the pieces between separators, empty ones kept.
RECURSIVE SplitFrom(_, _, _, _)
SplitFrom(s, sep, i, start) ==
  IF i > Len(s) THEN <<SubSeq(s, start, Len(s))>>
  ELSE IF Char(s, i) = sep
       THEN <<SubSeq(s, start, i - 1)>> \o SplitFrom(s, sep, i + 1, i + 1)
       ELSE SplitFrom(s, sep, i + 1, start)

Split(s, sep) == SplitFrom(s, sep, 1, 1)

\* The characters of the model's strings in byte order (the order of
\* String's Ord, which BTreeSet<String> and sort() use).
ByteOrder == "#*-./0123456789ABCDEFGHIJKLMNOPQRSTUVWXYZ_abcdefghijklmnopqrstuvwxyz"

ByteRank(c) == CHOOSE i \in 1..Len(ByteOrder) : Char(ByteOrder, i) = c

RECURSIVE StrLessFrom(_, _, _)
StrLessFrom(a, b, i) ==
  IF i > Len(b) THEN FALSE
  ELSE IF i > Len(a) THEN TRUE
  ELSE IF Char(a, i) = Char(b, i) THEN StrLessFrom(a, b, i + 1)
  ELSE ByteRank(Char(a, i)) < ByteRank(Char(b, i))

\* a < b for Rust strings (lexicographic on bytes).
StrLess(a, b) == StrLessFrom(a, b, 1)

\* The elements of a set of strings in ascending order: the iteration order
\* of a BTreeSet<String>, and the result of Vec<String>::sort().
RECURSIVE SortedSeq(_)
SortedSeq(S) ==
  IF S = {} THEN <<>>
  ELSE LET m == CHOOSE x \in S : \A y \in S \ {x} : StrLess(x, y)
       IN <<m>> \o SortedSeq(S \ {m})

Range(q) == {q[i] : i \in 1..Len(q)}

\* Every enumeration of a finite set: the iteration orders of a HashSet.
RECURSIVE Perms(_)
Perms(S) ==
  IF S = {} THEN {<<>>}
  ELSE UNION {{<<x>> \o q : q \in Perms(S \ {x})} : x \in S}

(***************************************************************************)
(* TargetMatcher: platform_matches, expand_one_platform, expand_platforms. *)
(***************************************************************************)
\* type ParsedPlatform: the `-`-separated segments of a triple or pattern.
ParsedPlatform(s) == Split(s, "-")

\* The zip loop of platform_matches from segment i on.
RECURSIVE platform_matches_from(_, _, _)
platform_matches_from(platform, o, i) ==
  IF i > Len(platform) \/ i > Len(o) THEN TRUE
  ELSE IF o[i] = "*" THEN platform_matches_from(platform, o, i + 1)
  ELSE IF o[i] # platform[i] THEN FALSE
  ELSE platform_matches_from(platform, o, i + 1)

\* A faulty variant: the length check is dropped, so zip stops at the shorter list.
platform_matches_nolen(platform, o) == platform_matches_from(platform, o, 1)

platform_matches(platform, o) ==
  IF Len(platform) # Len(o) THEN FALSE
  ELSE platform_matches_from(platform, o, 1)

\* target_list: a sequence of (target, parsed target) pairs.
ParseTargetList(names) ==
  [i \in 1..Len(names) |-> [name |-> names[i], parts |-> ParsedPlatform(names[i])]]

RECURSIVE expand_one_from(_, _, _)
expand_one_from(platform_parts, target_list, i) ==
  IF i > Len(target_list) THEN <<>>
  ELSE (IF platform_matches(target_list[i].parts, platform_parts)
        THEN <<target_list[i].name>> ELSE <<>>)
       \o expand_one_from(platform_parts, target_list, i + 1)

expand_one_platform(platform, target_list) ==
  expand_one_from(ParsedPlatform(platform), target_list, 1)

RECURSIVE expand_platforms_from(_, _, _)
expand_platforms_from(platforms, target_list, i) ==
  IF i > Len(platforms) THEN <<>>
  ELSE (IF Contains(platforms[i], "*")
        THEN expand_one_platform(platforms[i], target_list)
        ELSE <<platforms[i]>>)
       \o expand_platforms_from(platforms, target_list, i + 1)

\* A faulty variant: a literal pattern is looked up in the known targets like a
\* wildcard pattern, so an unlisted literal platform is dropped.
RECURSIVE expand_platforms_lookup_from(_, _, _)
expand_platforms_lookup_from(platforms, target_list, i) ==
  IF i > Len(platforms) THEN <<>>
  ELSE expand_one_platform(platforms[i], target_list)
       \o expand_platforms_lookup_from(platforms, target_list, i + 1)

expand_platforms_lookup(platforms, target_list) ==
  expand_platforms_lookup_from(platforms, target_list, 1)

expand_platforms(platforms, target_list) ==
  expand_platforms_from(platforms, target_list, 1)

(***************************************************************************)
(* Paths (camino::Utf8Path on Unix).                                       *)
(***************************************************************************)
CARGO_TOML == "Cargo.toml"
CARGO_CHECKSUM == ".cargo-checksum.json"
UNWANTED_MANIFEST_KEYS == {"bin", "example", "test", "bench"}
UNWANTED_PACKAGE_KEYS == {"links", "build"}

RootDir == "/"

has_root(s) == Len(s) > 0 /\ Char(s, 1) = "/"

\* A faulty variant: no path counts as absolute.
is_absolute_never(s) == FALSE

\* Path::is_absolute
is_absolute(s) == has_root(s)

\* Path::components: empty pieces are dropped, `.` is dropped unless it
\* leads the path, `..` and names are kept, a leading `/` is the root.
RECURSIVE ComponentsFrom(_, _)
ComponentsFrom(parts, i) ==
  IF i > Len(parts) THEN <<>>
  ELSE (IF parts[i] = "" \/ (parts[i] = "." /\ i > 1) THEN <<>> ELSE <<parts[i]>>)
       \o ComponentsFrom(parts, i + 1)

Components(s) ==
  (IF has_root(s) THEN <<RootDir>> ELSE <<>>) \o ComponentsFrom(Split(s, "/"), 1)

IsPrefix(a, b) == Len(a) <= Len(b) /\ SubSeq(b, 1, Len(a)) = a

\* A faulty variant: the prefix test is made on the strings, not on the components.
starts_with_str(k, base) == Len(base) <= Len(k) /\ SubSeq(k, 1, Len(base)) = base

\* Path::starts_with: base's components are a prefix of k's components.
starts_with(k, base) == IsPrefix(Components(base), Components(k))

(***************************************************************************)
(* The vendor directory. A tree maps each top-level entry to a package     *)
(* directory: whether it exists, its files (relative path -> content), its *)
(* subdirectories, and its checksum file. A location is the sequence of    *)
(* names leading from the output directory to a file or directory.        *)
(***************************************************************************)
MissingChecksums == [state |-> "missing", files |-> <<>>, package |-> "<absent>"]

GonePackage == [exists |-> FALSE, files |-> <<>>, dirs |-> {}, cksum |-> MissingChecksums]

Restrict(f, S) == [x \in S |-> f[x]]

\* What lstat finds at a location: "dir", "file" or "absent".
KindOf(v, loc) ==
  IF loc = <<>> THEN "dir"
  ELSE IF loc[1] \notin DOMAIN v \/ ~v[loc[1]].exists THEN "absent"
  ELSE IF Len(loc) = 1 THEN "dir"
  ELSE LET pkg == v[loc[1]]
           rest == Tail(loc)
       IN IF \E f \in DOMAIN pkg.files : Components(f) = rest THEN "file"
          ELSE IF \E d \in pkg.dirs : Components(d) = rest THEN "dir"
          ELSE IF rest = <<CARGO_CHECKSUM>> /\ pkg.cksum.state # "missing" THEN "file"
          ELSE "absent"

\* The kernel's walk of path.join(exclude) from location loc, piece by piece:
\* the result is the location reached and what symlink_metadata finds there
\* ("notdir" when a piece is looked up in a file, "outside" when the walk
\* leaves the output directory, whose surroundings are not modelled).
RECURSIVE Walk(_, _, _, _)
Walk(v, loc, parts, i) ==
  IF i > Len(parts) THEN [kind |-> KindOf(v, loc), loc |-> loc]
  ELSE IF KindOf(v, loc) = "absent" THEN [kind |-> "absent", loc |-> loc]
  ELSE IF KindOf(v, loc) = "file" THEN [kind |-> "notdir", loc |-> loc]
  ELSE IF parts[i] \in {"", "."} THEN Walk(v, loc, parts, i + 1)
  ELSE IF parts[i] = ".."
       THEN IF loc = <<>> THEN [kind |-> "outside", loc |-> loc]
            ELSE Walk(v, SubSeq(loc, 1, Len(loc) - 1), parts, i + 1)
  ELSE Walk(v, Append(loc, parts[i]), parts, i + 1)

\* std::fs::remove_dir_all / remove_file of the location (inside an entry).
RemoveAt(v, loc) ==
  IF Len(loc) = 1 THEN [v EXCEPT ![loc[1]] = GonePackage]
  ELSE LET pkg == v[loc[1]]
           rest == Tail(loc)
       IN [v EXCEPT ![loc[1]] =
             [exists |-> TRUE,
              files |-> Restrict(pkg.files,
                          {f \in DOMAIN pkg.files : ~IsPrefix(rest, Components(f))}),
              dirs |-> {d \in pkg.dirs : ~IsPrefix(rest, Components(d))},
              cksum |-> IF rest = <<CARGO_CHECKSUM>> THEN MissingChecksums
                        ELSE pkg.cksum]]

(***************************************************************************)
(* File contents, digests, manifests and checksum files.                   *)
(* A content is a sequence of lines; a manifest's lines are its keys (a    *)
(* top-level key, or `package.` and a key of the package table).           *)
(***************************************************************************)
RECURSIVE Join(_)
Join(buf) == IF buf = <<>> THEN "" ELSE Head(buf) \o ";" \o Join(Tail(buf))

\* sha256_hexdigest: injective on contents.
sha256_hexdigest(buf) == "sha256:" \o Join(buf)

\* A line no TOML parser accepts.
InvalidToml == "= = ="

\* A faulty variant: every text is taken as a manifest.
toml_parses_any(text) == TRUE

\* toml::from_str: the set of keys, when the text parses.
toml_parses(text) == InvalidToml \notin Range(text)

toml_from_str(text) == Range(text)

\* filter_manifest: the unwanted top-level tables and package keys are removed.
filter_manifest(manifest) ==
  (manifest \ UNWANTED_MANIFEST_KEYS) \ {"package." \o k : k \in UNWANTED_PACKAGE_KEYS}

\* toml::to_string: a table is serialized in key order.
toml_to_string(manifest) == SortedSeq(manifest)

\* Option<String>::None of CargoChecksums.package.
NoneString == "<None>"

\* serde_json::from_reader::<CargoChecksums>: an absent `package` member and
\* a null one both read as None.
ParseChecksums(json) ==
  [files |-> json.files,
   package |-> IF json.package \in {"<absent>", "null"} THEN NoneString ELSE json.package]

\* serde_json::to_writer: None is written as null.
SerializeChecksums(c) ==
  [state |-> "ok", files |-> c.files,
   package |-> IF c.package = NoneString THEN "null" ELSE c.package]

(***************************************************************************)
(* StubReplacer: replace_with_stub.                                        *)
(***************************************************************************)
\* The map checksums.files after both writef calls.
StubFileDigests(manifest_text) ==
  [f \in {CARGO_TOML, "src/lib.rs"} |->
     IF f = CARGO_TOML THEN sha256_hexdigest(manifest_text) ELSE sha256_hexdigest(<<>>)]

\* A faulty variant: the aggregate package digest is cleared with the file map.
StubChecksums_clearpackage(checksums, manifest_text) ==
  [files |-> StubFileDigests(manifest_text), package |-> NoneString]

\* checksums.files.clear() and the two inserts; `package` is not touched.
StubChecksums(checksums, manifest_text) ==
  [files |-> StubFileDigests(manifest_text), package |-> checksums.package]

\* A faulty variant: the old tree is not removed before the stub is written.
StubTree_keep(pkg, manifest_text) ==
  [f \in DOMAIN pkg.files \cup {CARGO_TOML, "src/lib.rs"} |->
     IF f = CARGO_TOML THEN manifest_text
     ELSE IF f = "src/lib.rs" THEN <<>> ELSE pkg.files[f]]

\* remove_dir_all(path), create_dir_all(path/src) and the two files written.
StubTree(pkg, manifest_text) ==
  [f \in {CARGO_TOML, "src/lib.rs"} |-> IF f = CARGO_TOML THEN manifest_text ELSE <<>>]

\* replace_with_stub(path) for the entry: the tree after it and "ok" or "err".
replace_with_stub(v, entry) ==
  LET pkg == v[entry]
  IN IF ~pkg.exists \/ CARGO_TOML \notin DOMAIN pkg.files
       THEN [v |-> v, res |-> "err"]            \* Reading Cargo.toml
     ELSE IF ~toml_parses(pkg.files[CARGO_TOML])
       THEN [v |-> v, res |-> "err"]            \* Parsing Cargo.toml
     ELSE IF pkg.cksum.state # "ok"
       THEN [v |-> v, res |-> "err"]            \* opening or parsing the checksums
     ELSE LET text == toml_to_string(filter_manifest(toml_from_str(pkg.files[CARGO_TOML])))
              checksums == StubChecksums(ParseChecksums(pkg.cksum), text)
          IN [v |-> [v EXCEPT ![entry] =
                       [exists |-> TRUE,
                        files |-> StubTree(pkg, text),
                        dirs |-> {"src"},
                        cksum |-> SerializeChecksums(checksums)]],
              res |-> "ok"]

(***************************************************************************)
(* PathPruner: process_excludes.                                           *)
(***************************************************************************)
\* The first loop of process_excludes over the excludes in iteration order:
\* the tree, whether a path was removed, and "ok" or "err".
RECURSIVE ExcludeLoop(_, _, _, _, _)
ExcludeLoop(v, entry, order, i, matched) ==
  IF i > Len(order) THEN [v |-> v, matched |-> matched, res |-> "ok"]
  ELSE IF is_absolute(order[i]) THEN [v |-> v, matched |-> matched, res |-> "err"]
  ELSE LET found == Walk(v, <<entry>>, Split(order[i], "/"), 1)
       IN IF found.kind = "absent"
            THEN ExcludeLoop(v, entry, order, i + 1, matched)
          ELSE IF found.kind \in {"notdir", "outside"} \/ found.loc = <<>>
            THEN [v |-> v, matched |-> matched, res |-> "err"]
          ELSE ExcludeLoop(RemoveAt(v, found.loc), entry, order, i + 1, TRUE)

\* checksums.files.retain: the keys no exclude is a component prefix of.
RetainedKeys(files, order) ==
  {k \in DOMAIN files : \A i \in 1..Len(order) : ~starts_with(k, order[i])}

\* process_excludes(path, name, excludes) for the entry, the excludes being
\* visited in `order`: the tree after it and "ok", "err" or "panic" (the
\* assert_ne on the number of checksum entries).
process_excludes(v, entry, order) ==
  LET l == ExcludeLoop(v, entry, order, 1, FALSE)
      pkg == l.v[entry]
  IN IF l.res # "ok" THEN [v |-> l.v, res |-> l.res]
     ELSE IF ~l.matched THEN [v |-> l.v, res |-> "ok"]
     ELSE IF ~pkg.exists \/ pkg.cksum.state # "ok" THEN [v |-> l.v, res |-> "err"]
     ELSE LET checksums == ParseChecksums(pkg.cksum)
              kept == RetainedKeys(checksums.files, order)
          IN IF Cardinality(kept) = Cardinality(DOMAIN checksums.files)
               THEN [v |-> l.v, res |-> "panic"]
             ELSE [v |-> [l.v EXCEPT ![entry].cksum =
                            SerializeChecksums([files |-> Restrict(checksums.files, kept),
                                                package |-> checksums.package])],
                   res |-> "ok"]

(***************************************************************************)
(* The packages of the project under test and the external collaborators   *)
(* (cargo metadata, cargo vendor, rustc --print target-list).              *)
(***************************************************************************)
Pkg(name, version, source) ==
  [id |-> name \o " " \o version, name |-> name, version |-> version, source |-> source]

RootPackage == Pkg("app", "0.1.0", NoneString)

\* hex is needed everywhere in version 0.4.3 and on Windows also in 0.3.2;
\* inotify is a Linux-only dependency, windows-sys a Windows-only one.
Universe ==
  {RootPackage,
   Pkg("hex", "0.4.3", "registry"), Pkg("hex", "0.3.2", "registry"),
   Pkg("inotify", "0.10.2", "registry"), Pkg("windows-sys", "0.52.0", "registry")}

\* The operating system a package is a dependency for ("all": every target).
TargetCfg(id) ==
  CASE id = "hex 0.3.2" -> "windows"
    [] id = "windows-sys 0.52.0" -> "windows"
    [] id = "inotify 0.10.2" -> "linux"
    [] OTHER -> "all"

\* Two more workspaces, given with --sync: their packages.
SyncManifests == {"tools/Cargo.toml", "helper/Cargo.toml"}

ManifestPackages(manifest_path) ==
  CASE manifest_path = "tools/Cargo.toml" ->
         {Pkg("tool", "0.1.0", NoneString), Pkg("hex", "0.4.3", "registry"),
          Pkg("inotify", "0.10.2", "registry")}
    [] manifest_path = "helper/Cargo.toml" ->
         {Pkg("helper", "0.2.0", NoneString), Pkg("cc", "1.0.83", "registry"),
          Pkg("windows-sys", "0.52.0", "registry")}
    [] OTHER -> Universe

\* cargo metadata for a manifest, with --filter-platform when a platform is
\* given: the packages of the resolved graph.
cargo_metadata_of(manifest_path, platform) ==
  IF platform = NoneString THEN ManifestPackages(manifest_path)
  ELSE {p \in ManifestPackages(manifest_path) :
          TargetCfg(p.id) = "all" \/ TargetCfg(p.id) \in Range(ParsedPlatform(platform))}

\* cargo metadata for the primary manifest.
cargo_metadata(platform) == cargo_metadata_of(NoneString, platform)

\* rustc --print target-list of the model's toolchain.
RustcTargets ==
  {"x86_64-unknown-linux-gnu", "aarch64-unknown-linux-gnu", "x86_64-pc-windows-gnu"}

\* semver::Version: the numbers of a version string, and their order.
RECURSIVE ParseNat(_)
ParseNat(s) ==
  IF s = "" THEN 0
  ELSE 10 * ParseNat(SubSeq(s, 1, Len(s) - 1))
       + (ByteRank(Char(s, Len(s))) - ByteRank("0"))

ParseVersion(s) == LET n == Split(s, ".") IN [i \in 1..Len(n) |-> ParseNat(n[i])]

VersionLess(a, b) ==
  LET x == ParseVersion(a)
      y == ParseVersion(b)
  IN \/ x[1] < y[1]
     \/ x[1] = y[1] /\ x[2] < y[2]
     \/ x[1] = y[1] /\ x[2] = y[2] /\ x[3] < y[3]

\* A faulty variant: the versions are compared as strings.
RECURSIVE SortByVersionDesc_str(_)
SortByVersionDesc_str(pkgs) ==
  IF pkgs = {} THEN <<>>
  ELSE LET m == CHOOSE p \in pkgs : \A q \in pkgs : ~StrLess(p.version, q.version)
       IN <<m>> \o SortByVersionDesc_str(pkgs \ {m})

\* pkgs.sort_by(|a, b| b.version.cmp(&a.version)): greatest version first.
RECURSIVE SortByVersionDesc(_)
SortByVersionDesc(pkgs) ==
  IF pkgs = {} THEN <<>>
  ELSE LET m == CHOOSE p \in pkgs : \A q \in pkgs : ~VersionLess(p.version, q.version)
       IN <<m>> \o SortByVersionDesc(pkgs \ {m})

\* package_versioned_filename
package_versioned_filename(p) == p.name \o "-" \o p.version

\* A faulty variant: local packages are not skipped.
pkgs_by_name_local(all_packages, root, name) ==
  {p \in all_packages : p.name = name /\ p.id # root.id}

\* run's pkgs_by_name: the packages of a name, the root package and local
\* packages skipped.
pkgs_by_name(all_packages, root, name) ==
  {p \in all_packages : p.name = name /\ p.id # root.id /\ p.source # NoneString}

\* The directory of each vendored package as cargo vendor names it: the
\* greatest version of a name gets the bare name, the others name-version.
VendorDirOf(p) ==
  IF SortByVersionDesc(pkgs_by_name(Universe, RootPackage, p.name))[1] = p
  THEN p.name ELSE package_versioned_filename(p)

\* The files cargo vendor writes for a package.
SourceFiles(dir) ==
  CASE dir = "hex" ->
         [f \in {CARGO_TOML, "src/lib.rs", "src/tests.rs", "tests/version.rs",
                 "tests2/x", "benches/hex.rs", "README.md", "CHANGELOG.md"} |->
            IF f = CARGO_TOML
            THEN <<"package.name", "package.version", "package.edition", "bench", "test">>
            ELSE <<f>>]
    [] dir = "hex-0.3.2" ->
         [f \in {CARGO_TOML, "src/lib.rs", "tests/version.rs", "README.md"} |->
            IF f = CARGO_TOML THEN <<"package.name", "package.version", "test">>
            ELSE <<f>>]
    [] dir = "inotify" ->
         [f \in {CARGO_TOML, "src/lib.rs", "src/events.rs", "tests/main.rs"} |->
            IF f = CARGO_TOML THEN <<"package.name", "package.version", "example">>
            ELSE <<f>>]
    [] OTHER ->
         [f \in {CARGO_TOML, "build.rs", "src/lib.rs", "src/core.rs"} |->
            IF f = CARGO_TOML
            THEN <<"package.name", "package.version", "package.links",
                   "package.build", "lib", "bin">>
            ELSE <<f>>]

\* The aggregate digest cargo vendor records: a registry digest, null, or
\* no `package` member at all.
PackageDigest(dir) ==
  CASE dir = "hex" -> "433cfd67"
    [] dir = "hex-0.3.2" -> "<absent>"
    [] dir = "inotify" -> "fdd168d9"
    [] OTHER -> "null"

\* The directories of a set of relative file paths: every proper prefix.
DirsOf(paths) ==
  {d \in UNION {{SubSeq(f, 1, i - 1) : i \in {j \in 1..Len(f) : Char(f, j) = "/"}} :
                f \in paths} : TRUE}

\* cargo vendor: one directory per registry package, its files, and a
\* checksum file that lists exactly those files.
MaterializedPackage(dir) ==
  [exists |-> TRUE,
   files |-> SourceFiles(dir),
   dirs |-> DirsOf(DOMAIN SourceFiles(dir)),
   cksum |-> [state |-> "ok",
              files |-> [f \in DOMAIN SourceFiles(dir) |->
                           sha256_hexdigest(SourceFiles(dir)[f])],
              package |-> PackageDigest(dir)]]

cargo_vendor ==
  LET vendored == {p \in Universe : p.id # RootPackage.id /\ p.source # NoneString}
  IN [d \in {VendorDirOf(p) : p \in vendored} |-> MaterializedPackage(d)]

(***************************************************************************)
(* Configuration (Args, VendorFilter, CrateExclude).                       *)
(***************************************************************************)
\* str::split_once('#')
RECURSIVE FindChar(_, _, _)
FindChar(s, c, i) ==
  IF i > Len(s) THEN 0 ELSE IF Char(s, i) = c THEN i ELSE FindChar(s, c, i + 1)

\* CrateExclude::parse_str: `CRATENAME#PATH`, split at the first `#`.
parse_str_ok(s) == FindChar(s, "#", 1) # 0

parse_str(s) ==
  LET at == FindChar(s, "#", 1)
  IN [name |-> SubSeq(s, 1, at - 1), exclude |-> SubSeq(s, at + 1, Len(s))]

\* Option<BTreeSet<String>>
NoPlatforms == [some |-> FALSE, set |-> {}]
SomePlatforms(P) == [some |-> TRUE, set |-> P]

\* VendorFilter::enables_platform_filtering
enables_platform_filtering(c) == c.tier # NoneString \/ (c.platforms.some /\ c.platforms.set # {})

\* run's index of the excludes: the excludes given under a crate name
\* (excludes.get(name) is Some exactly when the set is not empty).
ExcludesOf(c, name) == {e.exclude : e \in {x \in c.exclude_crate_paths : x.name = name}}

\* The --platform arguments of the runs of the model.
PlatformArgs ==
  {NoPlatforms, SomePlatforms({"x86_64-unknown-linux-gnu"}),
   SomePlatforms({"*-pc-windows-gnu"})}

\* The --exclude-crate-path arguments of the runs of the model: at most
\* MaxExcludes of these.
ExcludeArgPool ==
  {"hex#tests", "hex#benches", "*#tests", "*#src", "hex#*.md", "hex#./tests",
   "hex#/usr/share", "hex-tests"}

ExcludeArgs == {A \in SUBSET ExcludeArgPool : Cardinality(A) <= MaxExcludes}

\* OutputTarget: the values of --format.
OutputTargets == {"dir", "tar", "tar.gz", "tar.zstd"}

\* The command line without any option (clap's defaults).
DefaultArgs ==
  [platform |-> NoPlatforms, exclude_crate_path |-> {}, format |-> "dir",
   versioned_dirs |-> FALSE, sync |-> <<>>]

\* The subprocesses a run starts.
Subprocesses ==
  {"cargo metadata", "rustc", "cargo metadata --filter-platform", "cargo vendor",
   "git", "zstd"}

\* An environment in which the final output path does not exist, every
\* subprocess exits with status 0 and cargo vendor names the directories as
\* run expects. `exits` names the subprocess that exits non-zero, `layout`
\* is "versioned" when cargo vendor names every directory name-version,
\* `dest` is what is at the final output path: "absent", "file" or "dir",
\* `epoch` the value of SOURCE_DATE_EPOCH, if set.
NominalEnv ==
  [dest |-> "absent", exits |-> "none", layout |-> "predicted", epoch |-> NoneString]

\* Nothing at the final output path.
NoDest == [state |-> "absent", stream |-> <<>>]

(***************************************************************************)
(* InclusionResolver and VersionReconciler: the pure parts of run.         *)
(***************************************************************************)
\* Tier::targets (src/src/tiers.rs).
TIER1 ==
  {"aarch64-unknown-linux-gnu", "i686-pc-windows-gnu", "i686-pc-windows-msvc",
   "i686-unknown-linux-gnu", "x86_64-apple-darwin", "x86_64-pc-windows-gnu",
   "x86_64-pc-windows-msvc", "x86_64-unknown-linux-gnu"}

TIER2 ==
  {"aarch64-apple-darwin", "aarch64-pc-windows-msvc", "aarch64-unknown-linux-musl",
   "arm-unknown-linux-gnueabi", "arm-unknown-linux-gnueabihf",
   "armv7-unknown-linux-gnueabihf", "mips-unknown-linux-gnu",
   "mips64-unknown-linux-gnuabi64", "mips64el-unknown-linux-gnuabi64",
   "mipsel-unknown-linux-gnu", "powerpc-unknown-linux-gnu",
   "powerpc64-unknown-linux-gnu", "powerpc64le-unknown-linux-gnu",
   "riscv64gc-unknown-linux-gnu", "s390x-unknown-linux-gnu",
   "x86_64-unknown-freebsd", "x86_64-unknown-illumos", "x86_64-unknown-linux-musl",
   "x86_64-unknown-netbsd"}

\* Tier::targets
TierTargets(tier) == IF tier = "One" THEN TIER1 ELSE TIER1 \cup TIER2

\* get_target_list: the tier's list, or what rustc prints.
get_target_list(tier) == IF tier = NoneString THEN RustcTargets ELSE TierTargets(tier)

\* The platforms run queries, given the target list in its iteration order.
PlatformsToQuery(c, targets) ==
  IF c.platforms.some
  THEN expand_platforms(SortedSeq(c.platforms.set), ParseTargetList(targets))
  ELSE SortedSeq(Range(targets))

\* Args::get_all_manifest_paths: the primary manifest, then those of --sync.
get_all_manifest_paths(a) == <<NoneString>> \o a.sync

\* add_packages_for_platform: for every manifest, the ids cargo metadata
\* reports for the platform are inserted into the map.
RECURSIVE add_packages_for_platform_from(_, _, _, _)
add_packages_for_platform_from(manifest_paths, i, platform, packages_acc) ==
  IF i > Len(manifest_paths) THEN packages_acc
  ELSE add_packages_for_platform_from(manifest_paths, i + 1, platform,
         packages_acc \cup {p.id : p \in cargo_metadata_of(manifest_paths[i], platform)})

add_packages_for_platform(a, packages_acc, platform) ==
  add_packages_for_platform_from(get_all_manifest_paths(a), 1, platform, packages_acc)

\* run's loop over the platforms: each query's packages are inserted into
\* the same map.
RECURSIVE add_packages_from(_, _, _, _)
add_packages_from(a, platforms, i, acc) ==
  IF i > Len(platforms) THEN acc
  ELSE add_packages_from(a, platforms, i + 1,
                         add_packages_for_platform(a, acc, platforms[i]))

\* A faulty variant: each platform's packages replace those found before.
add_packages_replacing(a, filtering, platforms) ==
  IF filtering /\ platforms = <<>> THEN {}
  ELSE add_packages_for_platform(a, {}, IF filtering THEN platforms[Len(platforms)]
                                        ELSE NoneString)

\* run's filtered set: the loop over the platforms, or the one unfiltered
\* query.
add_packages(a, filtering, platforms) ==
  IF filtering THEN add_packages_from(a, platforms, 1, {})
  ELSE add_packages_for_platform(a, {}, NoneString)

\* The inserts into package_filenames for the packages of one name, sorted
\* greatest version first: the first under the bare name, the others under
\* name-version, each only if it is in the filtered set.
RECURSIVE RestInserts(_, _, _)
RestInserts(sorted, packages, i) ==
  IF i > Len(sorted) THEN <<>>
  ELSE (IF sorted[i].id \in packages
        THEN <<[key |-> package_versioned_filename(sorted[i]), pkg |-> sorted[i]]>>
        ELSE <<>>)
       \o RestInserts(sorted, packages, i + 1)

\* The highest version is filed under the bare name, the rest under name-version.
NameInserts(sorted, packages) ==
  (IF sorted[1].id \in packages
   THEN <<[key |-> sorted[1].name, pkg |-> sorted[1]]>> ELSE <<>>)
  \o RestInserts(sorted, packages, 2)

RECURSIVE AllInserts(_, _, _, _, _)
AllInserts(names, i, all_pkgs, root, packages) ==
  IF i > Len(names) THEN <<>>
  ELSE NameInserts(SortByVersionDesc(pkgs_by_name(all_pkgs, root, names[i])), packages)
       \o AllInserts(names, i + 1, all_pkgs, root, packages)

\* run's package_filenames: a BTreeMap from directory name to package, a
\* later insert of a key replacing an earlier one.
PackageFilenames(all_pkgs, root, packages) ==
  LET names == SortedSeq({n \in {p.name : p \in all_pkgs} :
                            pkgs_by_name(all_pkgs, root, n) # {}})
      ins == AllInserts(names, 1, all_pkgs, root, packages)
      last_of(k) == CHOOSE i \in 1..Len(ins) :
                      ins[i].key = k /\ \A j \in (i + 1)..Len(ins) : ins[j].key # k
  IN [k \in {ins[i].key : i \in 1..Len(ins)} |-> ins[last_of(k)].pkg]

(***************************************************************************)
(* ArchiveBuilder: generate_tar_from.                                      *)
(***************************************************************************)
\* The names in the directory at a location of the tree.
ChildrenOf(v, loc) ==
  IF loc = <<>> THEN {e \in DOMAIN v : v[e].exists}
  ELSE LET pkg == v[loc[1]]
           rest == Tail(loc)
           paths == {Components(f) : f \in DOMAIN pkg.files}
                    \cup {Components(d) : d \in pkg.dirs}
                    \cup (IF pkg.cksum.state # "missing" THEN {<<CARGO_CHECKSUM>>} ELSE {})
       IN {q[Len(rest) + 1] : q \in {r \in paths : Len(r) > Len(rest) /\ IsPrefix(rest, r)}}

Reverse(seq) == [i \in 1..Len(seq) |-> seq[Len(seq) + 1 - i]]

\* read_dir: the names of a directory in the order the filesystem gives
\* them, which no caller controls: ascending, descending, or rotated by one.
ReadDir(v, loc, enum) ==
  LET asc == SortedSeq(ChildrenOf(v, loc))
  IN CASE enum = "asc" -> asc
       [] enum = "desc" -> Reverse(asc)
       [] OTHER -> IF asc = <<>> THEN asc ELSE Tail(asc) \o <<Head(asc)>>

EnumOrders == {"asc", "desc", "rot"}

\* A faulty variant: the entries are taken as read_dir gives them.
sort_by_file_name_unsorted(names) == names

\* WalkDir::sort_by_file_name: the entries of one directory, by file name
\* (the comparison of OsStr, byte by byte).
sort_by_file_name(names) == SortedSeq(Range(names))

\* WalkDir: a directory, then each of its entries in turn with all that is
\* below it.
RECURSIVE WalkDir(_, _, _), WalkEntries(_, _, _, _, _)
WalkDir(v, loc, enum) ==
  <<loc>> \o (IF KindOf(v, loc) = "dir"
              THEN WalkEntries(v, loc, sort_by_file_name(ReadDir(v, loc, enum)), 1, enum)
              ELSE <<>>)

WalkEntries(v, loc, names, i, enum) ==
  IF i > Len(names) THEN <<>>
  ELSE WalkDir(v, Append(loc, names[i]), enum) \o WalkEntries(v, loc, names, i + 1, enum)

\* The bytes of the file at a location.
FileAt(v, loc) ==
  LET pkg == v[loc[1]]
      rest == Tail(loc)
  IN IF rest = <<CARGO_CHECKSUM>> /\ \A f \in DOMAIN pkg.files : Components(f) # rest
     THEN <<pkg.cksum>>
     ELSE pkg.files[CHOOSE f \in DOMAIN pkg.files : Components(f) = rest]

\* Utf8Path::join of the components of a location.
RECURSIVE JoinPath(_)
JoinPath(loc) ==
  IF loc = <<>> THEN ""
  ELSE IF Len(loc) = 1 THEN loc[1]
  ELSE loc[1] \o "/" \o JoinPath(Tail(loc))

\* Utf8Path::join(base, p): joining the empty path leaves a trailing `/`.
PathJoin(base, p) ==
  IF base = "" THEN p
  ELSE IF Char(base, Len(base)) = "/" THEN base \o p
  ELSE base \o "/" \o p

\* The path of a tar entry: `./`, then the prefix if any, then the path
\* below the source directory.
TarPath(prefix, loc) ==
  PathJoin("./", IF prefix = NoneString THEN JoinPath(loc)
                 ELSE PathJoin(prefix, JoinPath(loc)))

\* One entry of the tar stream: a GNU header in deterministic mode with the
\* timestamp as mtime and uid and gid 0, then the data.
TarEntry(v, loc, prefix, timestamp) ==
  LET isdir == KindOf(v, loc) = "dir"
  IN [path |-> TarPath(prefix, loc),
      type |-> IF isdir THEN "dir" ELSE "file",
      mode |-> IF isdir THEN "755" ELSE "644",
      mtime |-> timestamp, uid |-> 0, gid |-> 0,
      data |-> IF isdir THEN <<>> ELSE FileAt(v, loc)]

\* A faulty variant: the entries are appended in the order of their whole
\* path strings.
TarStream_bypath(v, prefix, timestamp, enum) ==
  LET walk == WalkDir(v, <<>>, enum)
      byname == SortedSeq({JoinPath(walk[i]) : i \in 1..Len(walk)})
      at(n) == CHOOSE i \in 1..Len(walk) : JoinPath(walk[i]) = n
  IN [i \in 1..Len(walk) |-> TarEntry(v, walk[at(byname[i])], prefix, timestamp)]

\* The tar stream of the source directory.
TarStream(v, prefix, timestamp, enum) ==
  LET walk == WalkDir(v, <<>>, enum)
  IN [i \in 1..Len(walk) |-> TarEntry(v, walk[i], prefix, timestamp)]

\* What git log -1 --pretty=%ct prints, trimmed.
GitCommitTime == "1690000000"

\* str::parse::<u64>: only digits, at least one.
IsNumber(s) == s # "" /\ \A i \in 1..Len(s) : Contains("0123456789", Char(s, i))

\* The output of the encoder chosen by --format for a tar stream (gzip with
\* mtime 0 at level 6, the zstd program with its defaults).
Compress(compress, stream) ==
  CASE compress = "Gzip" -> <<[encoder |-> "gzip", mtime |-> 0, level |-> 6, of |-> stream]>>
    [] compress = "Zstd" -> <<[encoder |-> "zstd", mtime |-> 0, level |-> 3, of |-> stream]>>
    [] OTHER -> stream

\* run's choice of the compression for a format.
CompressionOf(format) ==
  CASE format = "tar.gz" -> "Gzip"
    [] format = "tar.zstd" -> "Zstd"
    [] OTHER -> "None"

\* generate_tar_from(srcdir, dest, prefix, compress): what is at dest after
\* it, "ok" or "err", and the subprocesses it ran. `sde` is the value of
\* SOURCE_DATE_EPOCH or None, `git` what git log prints or None when git
\* exits non-zero, `zstd_ok` whether the zstd program exits with status 0.
generate_tar_from(v, at_dest, prefix, compress, sde, git, zstd_ok, enum) ==
  LET epoch == IF sde # NoneString THEN sde ELSE git
      ran_git == IF sde = NoneString THEN {"git"} ELSE {}
  IN IF epoch = NoneString \/ ~IsNumber(epoch)
       THEN [dest |-> at_dest, res |-> "err", ran |-> ran_git]
     ELSE IF at_dest.state = "dir"
       THEN [dest |-> at_dest, res |-> "err", ran |-> ran_git]   \* File::create
     ELSE IF compress = "Zstd" /\ ~zstd_ok
       THEN [dest |-> [state |-> "file", stream |-> <<>>], res |-> "err",
             ran |-> ran_git \cup {"zstd"}]
     ELSE [dest |-> [state |-> "file",
                      stream |-> Compress(compress,
                                   TarStream(v, prefix, ParseNat(epoch), enum))],
           res |-> "ok",
           ran |-> ran_git \cup (IF compress = "Zstd" THEN {"zstd"} ELSE {})]

(***************************************************************************)
(* The state of a run, and of one call of a pure function.                 *)
(***************************************************************************)
VARIABLES
  call,                \* one call of a pure function: inputs and result
  args,                \* the command line
  env,                 \* what the run meets: the destination, the subprocesses
  config,              \* the VendorFilter in force
  pc,                  \* the position of run
  all_packages,        \* the unfiltered packages
  packages,            \* the ids of the filtered packages
  expanded_platforms,  \* the platforms queried, when filtering by platform
  package_filenames,   \* directory name -> package to keep
  vendor,              \* the output directory
  entries,             \* delete_unreferenced_packages: the entries still to visit
  cur,                 \* delete_unreferenced_packages: the entry being visited
  unreferenced,        \* delete_unreferenced_packages: the entries stubbed
  result,              \* "running", or how run ended: "ok", "err" or "panic"
  last,                \* the last replace_with_stub or process_excludes call
  dest,                \* what is at the final output path
  ran,                 \* the subprocesses and stages that have run
  failed               \* the subprocess that exited non-zero, if any

vars ==
  <<call, args, env, config, pc, all_packages, packages, expanded_platforms,
    package_filenames, vendor, entries, cur, unreferenced, result, last,
    dest, ran, failed>>

run_vars ==
  <<args, env, config, pc, all_packages, packages, expanded_platforms,
    package_filenames, vendor, entries, cur, unreferenced, result, last,
    dest, ran, failed>>

\* VendorFilter::default()
DefaultConfig == [platforms |-> NoPlatforms, tier |-> NoneString, exclude_crate_paths |-> {}]

NoCall == [op |-> "none", entry |-> "", order |-> <<>>, before |-> <<>>, res |-> "ok"]

\* A run that has not started (the TargetMatcher calls are made outside a run).
NoRun ==
  /\ args = DefaultArgs
  /\ env = NominalEnv
  /\ config = DefaultConfig
  /\ pc = "none"
  /\ all_packages = {}
  /\ packages = {}
  /\ expanded_platforms = [some |-> FALSE, list |-> <<>>]
  /\ package_filenames = <<>>
  /\ vendor = <<>>
  /\ entries = {}
  /\ cur = ""
  /\ unreferenced = {}
  /\ result = "running"
  /\ last = NoCall
  /\ dest = NoDest
  /\ ran = {}
  /\ failed = "none"

(***************************************************************************)
(* Inputs of the TargetMatcher checks.                                     *)
(***************************************************************************)
\* The target list of test_platforms (src/src/main.rs:998-1006).
TriplePool ==
  {"powerpc64le-unknown-linux-gnu", "x86_64-unknown-linux-gnux32",
   "arm-linux-androideabi", "x86_64-unknown-linux-gnu", "mipsel-sony-psp",
   "wasm32-wasi", "x86_64-sun-solaris"}

\* Patterns a user may configure: literals (one of them unknown to the
\* toolchain) and wildcard patterns of two, three and four segments.
PatternPool ==
  {"x86_64-unknown-linux-gnu", "riscv64-custom-none-elf",
   "*-unknown-linux-gnu", "x86_64-unknown-linux-*", "x86_64-*", "*-*-*"}

\* The lists of known triples: at most MaxTargets triples, in any order (the
\* list is collected from a HashSet).
TargetLists ==
  UNION {Perms(S) : S \in {T \in SUBSET TriplePool : Cardinality(T) <= MaxTargets}}

PatternSets == {P \in SUBSET PatternPool : Cardinality(P) <= MaxPatterns}

IdleCall ==
  [fn |-> "none", triple |-> "", pattern |-> "", platforms |-> {},
   targets |-> <<>>, done |-> FALSE, matched |-> FALSE, expanded |-> <<>>]

MatchCalls ==
  {[IdleCall EXCEPT !.fn = "platform_matches", !.triple = t, !.pattern = p] :
     t \in TriplePool \cup {l \in PatternPool : ~Contains(l, "*")},
     p \in PatternPool \cup TriplePool}

ExpandCalls ==
  {[IdleCall EXCEPT !.fn = "expand_platforms", !.platforms = P, !.targets = q] :
     P \in PatternSets, q \in TargetLists}

\* platform_matches on the parsed triple and the parsed pattern, as
\* expand_one_platform calls it.
CallPlatformMatches ==
  /\ call.fn = "platform_matches" /\ ~call.done
  /\ call' = [call EXCEPT !.done = TRUE,
                !.matched = platform_matches(ParsedPlatform(call.triple),
                                             ParsedPlatform(call.pattern))]
  /\ UNCHANGED run_vars

\* run's expansion of the configured platform set: the target list is parsed,
\* the BTreeSet of patterns is iterated in order, expand_platforms is called.
CallExpandPlatforms ==
  /\ call.fn = "expand_platforms" /\ ~call.done
  /\ call' = [call EXCEPT !.done = TRUE,
                !.expanded = expand_platforms(SortedSeq(call.platforms),
                                              ParseTargetList(call.targets))]
  /\ UNCHANGED run_vars

InitPlatforms == call \in MatchCalls \cup ExpandCalls /\ NoRun

NextPlatforms == CallPlatformMatches \/ CallExpandPlatforms

SpecPlatforms == InitPlatforms /\ [][NextPlatforms]_vars

(***************************************************************************)
(* Inputs of the VersionReconciler checks.                                 *)
(***************************************************************************)
\* A local package (a path dependency): it has no source.
LocalPackage == Pkg("bar", "0.1.0", NoneString)

\* The registry packages a resolved graph may hold in these checks.
PkgPool ==
  {Pkg("hex", "0.10.0", "registry"), Pkg("hex", "0.4.3", "registry"),
   Pkg("hex", "0.3.2", "registry"), Pkg("inotify", "0.10.2", "registry"),
   LocalPackage}

\* One computation of package_filenames: the unfiltered packages (the root
\* package among them) and the ids of the filtered ones, which cargo
\* metadata reports among the unfiltered ones.
FilenameCalls ==
  {[fn |-> "package_filenames", all_packages |-> U \cup {RootPackage},
    packages |-> I \cup {RootPackage.id}, done |-> FALSE, filenames |-> <<>>] :
     U \in SUBSET PkgPool, I \in SUBSET {p.id : p \in PkgPool}}

CallPackageFilenames ==
  /\ call.fn = "package_filenames" /\ ~call.done
  /\ call' = [call EXCEPT !.done = TRUE,
                !.filenames = PackageFilenames(call.all_packages, RootPackage,
                                               call.packages)]
  /\ UNCHANGED run_vars

InitFilenames ==
  /\ call \in {c \in FilenameCalls : c.packages \subseteq {p.id : p \in c.all_packages}}
  /\ NoRun

NextFilenames == CallPackageFilenames

SpecFilenames == InitFilenames /\ [][NextFilenames]_vars

\* Resolved graphs in which two packages are given the same directory name:
\* a package whose name is the name-version of another one.
KeyPool ==
  {Pkg("hex", "0.4.3", "registry"), Pkg("hex", "0.3.2", "registry"),
   Pkg("hex-0.3.2", "1.0.0", "registry"), Pkg("inotify", "0.10.2", "registry"),
   LocalPackage}

KeyCalls ==
  {[fn |-> "package_filenames", all_packages |-> U \cup {RootPackage},
    packages |-> I \cup {RootPackage.id}, done |-> FALSE, filenames |-> <<>>] :
     U \in SUBSET KeyPool, I \in SUBSET {p.id : p \in KeyPool}}

InitKeys ==
  /\ call \in {c \in KeyCalls : c.packages \subseteq {p.id : p \in c.all_packages}}
  /\ NoRun

SpecKeys == InitKeys /\ [][NextFilenames]_vars


(***************************************************************************)
(* Inputs of the ArchiveBuilder checks.                                    *)
(***************************************************************************)
\* The directory trees archived: the vendored packages of some of the names.
ArchiveTrees ==
  {Restrict(cargo_vendor, S) : S \in SUBSET {"hex", "hex-0.3.2", "inotify"}}

\* Two runs of generate_tar_from over the same tree with the same timestamp
\* source, prefix and compression, each with the order its read_dir gives.
ArchiveCalls ==
  {[fn |-> "generate_tar_from", tree |-> t, prefix |-> pre, compress |-> c,
    epoch |-> e, enum |-> en, done |-> <<FALSE, FALSE>>,
    out |-> <<[dest |-> NoDest, res |-> "none", ran |-> {}],
              [dest |-> NoDest, res |-> "none", ran |-> {}]>>] :
     t \in ArchiveTrees, pre \in {NoneString, "vendor"},
     c \in {"None", "Gzip", "Zstd"}, e \in {NoneString, "1700000000"},
     en \in EnumOrders \X EnumOrders}

CallGenerateTar(n) ==
  /\ call.fn = "generate_tar_from" /\ ~call.done[n]
  /\ call' = [call EXCEPT !.done[n] = TRUE,
                !.out[n] = generate_tar_from(call.tree, NoDest, call.prefix,
                                             call.compress, call.epoch,
                                             GitCommitTime, TRUE, call.enum[n])]
  /\ UNCHANGED run_vars

FirstArchive == CallGenerateTar(1)

SecondArchive == CallGenerateTar(2)

InitArchive == call \in ArchiveCalls /\ NoRun

NextArchive == FirstArchive \/ SecondArchive

SpecArchive == InitArchive /\ [][NextArchive]_vars

(***************************************************************************)
(* InclusionResolver: the filtered set of run, for command lines with      *)
(* --sync and platform lists in every order.                               *)
(***************************************************************************)
InclusionPlatforms ==
  {"x86_64-unknown-linux-gnu", "x86_64-pc-windows-gnu", "aarch64-apple-darwin"}

\* The sequences without repetition over the subsets of a set.
Orders(S) == UNION {Perms(T) : T \in SUBSET S}

InclusionCalls ==
  {[fn |-> "add_packages", a |-> [DefaultArgs EXCEPT !.sync = sync],
    filtering |-> f, platforms |-> ps, done |-> FALSE, packages |-> {},
    again |-> [done |-> FALSE, a |-> DefaultArgs, platforms |-> <<>>, packages |-> {}]] :
     sync \in Orders(SyncManifests), f \in BOOLEAN,
     ps \in Orders(InclusionPlatforms)}

CallAddPackages ==
  /\ call.fn = "add_packages" /\ ~call.done
  /\ ~call.filtering => call.platforms = <<>>
  /\ call' = [call EXCEPT !.done = TRUE,
                !.packages = add_packages(call.a, call.filtering, call.platforms)]
  /\ UNCHANGED run_vars

\* The same manifests and platforms, processed in another order.
CallAddPackagesAgain ==
  /\ call.fn = "add_packages" /\ call.done /\ ~call.again.done
  /\ \E sync \in Perms(Range(call.a.sync)), ps \in Perms(Range(call.platforms)) :
       call' = [call EXCEPT !.again =
                  [done |-> TRUE, a |-> [call.a EXCEPT !.sync = sync], platforms |-> ps,
                   packages |-> add_packages([call.a EXCEPT !.sync = sync],
                                             call.filtering, ps)]]
  /\ UNCHANGED run_vars

InitInclusion ==
  /\ call \in {c \in InclusionCalls : ~c.filtering => c.platforms = <<>>}
  /\ NoRun

NextInclusion == CallAddPackages \/ CallAddPackagesAgain

SpecInclusion == InitInclusion /\ [][NextInclusion]_vars

(***************************************************************************)
(* Dependency kinds: get_required_packages (dep_kinds_filtering.rs) and    *)
(* its collaborator cargo tree.                                            *)
(***************************************************************************)
DepKinds == {"All", "Normal", "Build", "Dev", "NoNormal", "NoBuild", "NoDev"}

\* A faulty variant: NoBuild is printed as `build`.
to_possible_value_nobuild(kind) ==
  CASE kind = "All" -> "all"
    [] kind = "Normal" -> "normal"
    [] kind = "Build" -> "build"
    [] kind = "Dev" -> "dev"
    [] kind = "NoNormal" -> "no-normal"
    [] kind = "NoBuild" -> "build"
    [] OTHER -> "no-dev"

\* DepKinds::to_possible_value, the name Display prints.
to_possible_value(kind) ==
  CASE kind = "All" -> "all"
    [] kind = "Normal" -> "normal"
    [] kind = "Build" -> "build"
    [] kind = "Dev" -> "dev"
    [] kind = "NoNormal" -> "no-normal"
    [] kind = "NoBuild" -> "no-build"
    [] OTHER -> "no-dev"

\* cargo tree --edges: the kinds of dependency edges a value selects.
EdgesOf(edges) ==
  CASE edges = "all" -> {"normal", "build", "dev"}
    [] edges = "normal" -> {"normal"}
    [] edges = "build" -> {"build"}
    [] edges = "dev" -> {"dev"}
    [] edges = "no-normal" -> {"build", "dev"}
    [] edges = "no-build" -> {"normal", "dev"}
    [] OTHER -> {"normal", "build"}

Dep(from, to, kind, cfg) == [from |-> from, to |-> to, kind |-> kind, cfg |-> cfg]

\* A manifest like the project's own: normal, build and dev dependencies,
\* one of them for Windows only.
OwnManifest ==
  [ok |-> TRUE, root |-> "app",
   version |-> [n \in {"app", "hex", "windows-sys", "cc", "once_cell", "serial_test"} |->
                  CASE n = "app" -> "0.1.0" [] n = "hex" -> "0.4.3"
                    [] n = "windows-sys" -> "0.52.0" [] n = "cc" -> "1.0.83"
                    [] n = "once_cell" -> "1.19.0" [] OTHER -> "3.0.0"],
   deps |-> {Dep("app", "hex", "normal", "all"),
             Dep("app", "windows-sys", "normal", "windows"),
             Dep("app", "cc", "build", "all"),
             Dep("app", "serial_test", "dev", "all"),
             Dep("app", "once_cell", "dev", "all")}]

\* A manifest whose dependencies are mostly build dependencies.
BuildManifest ==
  [ok |-> TRUE, root |-> "app",
   version |-> [n \in {"app", "cc", "pkg-config", "hex"} |->
                  CASE n = "app" -> "0.1.0" [] n = "cc" -> "1.0.83"
                    [] n = "pkg-config" -> "0.3.27" [] OTHER -> "0.4.3"],
   deps |-> {Dep("app", "cc", "build", "all"),
             Dep("app", "pkg-config", "build", "all"),
             Dep("app", "hex", "dev", "all")}]

\* A manifest cargo cannot load: cargo tree exits non-zero.
BrokenManifest == [ok |-> FALSE, root |-> "app", version |-> <<>>, deps |-> {}]

\* The packages cargo tree reaches from the root over the selected edges
\* that apply to the target.
RECURSIVE TreeReach(_, _, _, _)
TreeReach(m, kinds, target, seen) ==
  LET more == {d.to : d \in {e \in m.deps :
                  /\ e.from \in seen /\ e.kind \in kinds
                  /\ (target = "all" \/ e.cfg = "all"
                      \/ e.cfg \in Range(ParsedPlatform(target)))}} \ seen
  IN IF more = {} THEN seen ELSE TreeReach(m, kinds, target, seen \cup more)

\* cargo tree --quiet --prefix none --edges <edges> --target=<target>: one
\* line `name vVERSION` per package, the root with its path, and a package
\* reached again marked `(*)`.
cargo_tree(m, edges, target) ==
  LET reached == SortedSeq(TreeReach(m, EdgesOf(edges), target, {m.root}) \ {m.root})
      line(n) == n \o " v" \o m.version[n]
  IN IF ~m.ok THEN [ok |-> FALSE, lines |-> <<>>]
     ELSE [ok |-> TRUE,
           lines |-> <<line(m.root) \o " (/work/app)">>
                     \o [i \in 1..Len(reached) |-> line(reached[i])]
                     \o (IF reached = <<>> THEN <<>> ELSE <<line(reached[1]) \o " (*)">>)]

\* str::contains for a substring.
str_contains(s, t) ==
  \E i \in 1..(Len(s) - Len(t) + 1) : SubSeq(s, i, i + Len(t) - 1) = t

\* semver::Version::parse: MAJOR.MINOR.PATCH, each a number without a
\* leading zero, and an optional pre-release after `-`.
SemverCore(s) ==
  LET at == FindChar(s, "-", 1) IN IF at = 0 THEN s ELSE SubSeq(s, 1, at - 1)

SemverPre(s) ==
  LET at == FindChar(s, "-", 1) IN IF at = 0 THEN "" ELSE SubSeq(s, at + 1, Len(s))

semver_parses(s) ==
  LET n == Split(SemverCore(s), ".")
  IN /\ Len(n) = 3
     /\ \A i \in 1..3 : IsNumber(n[i]) /\ (Len(n[i]) > 1 => Char(n[i], 1) # "0")
     /\ FindChar(s, "-", 1) # 0 => SemverPre(s) # ""

semver_parse(s) ==
  ParseVersion(SemverCore(s)) \o (IF SemverPre(s) = "" THEN <<>> ELSE <<SemverPre(s)>>)

NoError == [kind |-> "none"]

\* A faulty variant: only short version tokens are skipped.
skips_version_short(version) == Len(version) < 5

\* The lines get_required_packages skips: invalid entries and the
\* "feature" list.
skips_version(version) == Len(version) < 5 \/ str_contains(version, "feature")

\* The lines of get_required_packages' parsing loop: the pairs of name and
\* version inserted, or the error returned.
RECURSIVE ParseTreeLines(_, _, _)
ParseTreeLines(lines, i, acc) ==
  IF i > Len(lines) THEN [ok |-> TRUE, set |-> acc, error |-> NoError]
  ELSE LET tokens == Split(lines[i], " ")
           version == SubSeq(tokens[2], 2, Len(tokens[2]))
       IN IF Len(tokens) < 2
          THEN [ok |-> FALSE, set |-> acc,
                error |-> [kind |-> "Invalid output received from cargo tree",
                           text |-> lines[i]]]
          ELSE IF skips_version(tokens[2]) THEN ParseTreeLines(lines, i + 1, acc)
          ELSE IF Char(tokens[2], 1) # "v"
          THEN [ok |-> FALSE, set |-> acc,
                error |-> [kind |-> "Invalid version", text |-> tokens[2]]]
          ELSE IF ~semver_parses(version)
          THEN [ok |-> FALSE, set |-> acc,
                error |-> [kind |-> "Cannot parse version", text |-> version,
                           package |-> tokens[1]]]
          ELSE ParseTreeLines(lines, i + 1,
                              acc \cup {<<tokens[1], semver_parse(version)>>})

\* get_required_packages: cargo tree for each manifest, the packages of all
\* of them in one set; a cargo tree that exits non-zero is an error.
RECURSIVE get_required_packages_from(_, _, _, _, _)
get_required_packages_from(manifest_paths, i, keep_dep_kinds, platform, acc) ==
  IF i > Len(manifest_paths) THEN [ok |-> TRUE, set |-> acc, error |-> NoError]
  ELSE LET out == cargo_tree(manifest_paths[i], to_possible_value(keep_dep_kinds),
                             IF platform = NoneString THEN "all" ELSE platform)
           parsed == ParseTreeLines(out.lines, 1, acc)
       IN IF ~out.ok
          THEN [ok |-> FALSE, set |-> {},
                error |-> [kind |-> "Failed to execute cargo tree"]]
          ELSE IF ~parsed.ok THEN [ok |-> FALSE, set |-> {}, error |-> parsed.error]
          ELSE get_required_packages_from(manifest_paths, i + 1, keep_dep_kinds,
                                          platform, parsed.set)

get_required_packages(manifest_paths, keep_dep_kinds, platform) ==
  get_required_packages_from(manifest_paths, 1, keep_dep_kinds, platform, {})

\* The manifests and platforms of the checks; for each pair the required
\* packages of every kind are computed, in any order.
RequiredCalls ==
  {[fn |-> "get_required_packages", manifest_paths |-> m, platform |-> t,
    done |-> {}, required |-> [k \in DepKinds |-> [ok |-> FALSE, set |-> {}]]] :
     m \in {<<OwnManifest>>, <<BuildManifest>>, <<OwnManifest, BuildManifest>>,
            <<BrokenManifest>>},
     t \in {NoneString, "x86_64-unknown-linux-gnu", "x86_64-pc-windows-gnu"}}

CallRequiredPackages ==
  /\ call.fn = "get_required_packages"
  /\ \E k \in DepKinds \ call.done :
       call' = [call EXCEPT !.done = call.done \cup {k},
                  !.required[k] = get_required_packages(call.manifest_paths, k,
                                                        call.platform)]
  /\ UNCHANGED run_vars

InitDepKinds == call \in RequiredCalls /\ NoRun

NextDepKinds == CallRequiredPackages

SpecDepKinds == InitDepKinds /\ [][NextDepKinds]_vars

(***************************************************************************)
(* StubReplacer: replace_with_stub on package directories that are whole   *)
(* or damaged.                                                             *)
(***************************************************************************)
ManifestDamages == {"none", "missing", "unparseable"}

ChecksumDamages == {"none", "missing", "unparseable"}

\* A package directory with its Cargo.toml or .cargo-checksum.json missing
\* or holding text that does not parse.
Damaged(pkg, manifest, checksums) ==
  [exists |-> TRUE,
   files |-> CASE manifest = "missing" ->
                    Restrict(pkg.files, DOMAIN pkg.files \ {CARGO_TOML})
               [] manifest = "unparseable" ->
                    [pkg.files EXCEPT ![CARGO_TOML] = <<InvalidToml>>]
               [] OTHER -> pkg.files,
   dirs |-> pkg.dirs,
   cksum |-> CASE checksums = "missing" -> MissingChecksums
               [] checksums = "unparseable" -> [pkg.cksum EXCEPT !.state = "unparseable"]
               [] OTHER -> pkg.cksum]

StubCalls ==
  {[fn |-> "replace_with_stub", entry |-> e, manifest |-> m, checksums |-> c,
    tree |-> [Restrict(cargo_vendor, S \cup {e}) EXCEPT
                ![e] = Damaged(cargo_vendor[e], m, c)],
    done |-> FALSE, out |-> [v |-> <<>>, res |-> "ok"]] :
     e \in DOMAIN cargo_vendor, m \in ManifestDamages, c \in ChecksumDamages,
     S \in SUBSET DOMAIN cargo_vendor}

CallReplaceWithStub ==
  /\ call.fn = "replace_with_stub" /\ ~call.done
  /\ call' = [call EXCEPT !.done = TRUE, !.out = replace_with_stub(call.tree, call.entry)]
  /\ UNCHANGED run_vars

InitStub == call \in StubCalls /\ NoRun

NextStub == CallReplaceWithStub

SpecStub == InitStub /\ [][NextStub]_vars

(***************************************************************************)
(* The filtered set of run under a configuration read from                 *)
(* package.metadata.vendor-filter, where a tier and a platform set (empty  *)
(* or not) can be given together.                                          *)
(***************************************************************************)
\* run, the filtered set: the platforms queried and the packages inserted.
filtered_set(a, c, targets) ==
  IF enables_platform_filtering(c)
  THEN LET platforms == PlatformsToQuery(c, targets)
       IN [packages |-> add_packages(a, TRUE, platforms),
           expanded_platforms |-> [some |-> TRUE, list |-> platforms]]
  ELSE [packages |-> add_packages(a, FALSE, <<>>),
        expanded_platforms |-> [some |-> FALSE, list |-> <<>>]]

\* The values of `tier` in the manifest's table that the calls are made
\* with: absent, or tier one (tier two takes the same path over a longer
\* list of targets).
Tiers == {NoneString, "One"}

EmbeddedPlatformPool ==
  {"x86_64-unknown-linux-gnu", "*-pc-windows-gnu", "*-apple-darwin",
   "riscv64-custom-none-elf", "*-*-*", "s390x-*-*-*"}

\* The values of `platforms` in the manifest's table: absent, or a set of at
\* most MaxPatterns patterns, the empty set included.
EmbeddedPlatforms ==
  {NoPlatforms} \cup
  {SomePlatforms(P) : P \in {Q \in SUBSET EmbeddedPlatformPool :
                                Cardinality(Q) <= MaxPatterns}}

EmbeddedConfigs ==
  [platforms : EmbeddedPlatforms, tier : Tiers, exclude_crate_paths : {{}}]

\* Two of the orders in which the HashSet of get_target_list is iterated.
TargetOrders(targets) == {SortedSeq(targets), Reverse(SortedSeq(targets))}

TierCalls ==
  {[fn |-> "filtered_set", config |-> c, done |-> FALSE, targets |-> <<>>,
    out |-> [packages |-> {}, expanded_platforms |-> [some |-> FALSE, list |-> <<>>]]] :
     c \in EmbeddedConfigs}

CallFilteredSet ==
  /\ call.fn = "filtered_set" /\ ~call.done
  /\ \E targets \in TargetOrders(get_target_list(call.config.tier)) :
       call' = [call EXCEPT !.done = TRUE, !.targets = targets,
                  !.out = filtered_set(DefaultArgs, call.config, targets)]
  /\ UNCHANGED run_vars

InitTier == call \in TierCalls /\ NoRun

NextTier == CallFilteredSet

SpecTier == InitTier /\ [][NextTier]_vars

(***************************************************************************)
(* The two process_excludes passes of delete_unreferenced_packages on one  *)
(* entry, next to one pass with the excludes of both.                      *)
(***************************************************************************)
\* At most MaxPassExcludes excludes under the entry's name and as many under `*`.
MaxPassExcludes == 1

ExcludePathPool ==
  {"tests", "benches", "tests/version.rs", "./tests", "/usr/share", "",
   "../inotify/tests"}

\* The exact-name pass, then the pass for `*`, as the code runs them: the
\* second is not reached when the first fails.
two_passes(v, entry, exact_order, generic_order) ==
  LET first == IF exact_order = <<>> THEN [v |-> v, res |-> "ok"]
               ELSE process_excludes(v, entry, exact_order)
  IN IF first.res # "ok" THEN first
     ELSE IF generic_order = <<>> THEN first
     ELSE process_excludes(first.v, entry, generic_order)

PassCalls ==
  {[fn |-> "passes", entry |-> e, exact |-> E, generic |-> W, done |-> FALSE,
    two |-> [v |-> cargo_vendor, res |-> "ok"],
    one |-> [v |-> cargo_vendor, res |-> "ok"]] :
     e \in {"hex", "inotify"},
     E \in {X \in SUBSET ExcludePathPool : Cardinality(X) <= MaxPassExcludes},
     W \in {X \in SUBSET ExcludePathPool : Cardinality(X) <= MaxPassExcludes}}

\* Both computations on the tree cargo vendor wrote, each with the excludes
\* in some order.
CallPasses ==
  /\ call.fn = "passes" /\ ~call.done
  /\ \E eo \in Perms(call.exact), go \in Perms(call.generic),
        uo \in Perms(call.exact \cup call.generic) :
       call' = [call EXCEPT !.done = TRUE,
                  !.two = two_passes(cargo_vendor, call.entry, eo, go),
                  !.one = IF uo = <<>> THEN [v |-> cargo_vendor, res |-> "ok"]
                          ELSE process_excludes(cargo_vendor, call.entry, uo)]
  /\ UNCHANGED run_vars

InitPasses == call \in PassCalls /\ NoRun

NextPasses == CallPasses

SpecPasses == InitPasses /\ [][NextPasses]_vars

(***************************************************************************)
(* The parsing of cargo tree's lines, on listings of up to MaxLines lines. *)
(***************************************************************************)
MaxLines == 2

\* Lines cargo tree prints, and lines it should not print.
TreeLinePool ==
  {"hex v0.4.3", "app v0.1.0 (/work/app)", "cc v1.0.83 (*)", "nom v8.0.0-alpha1",
   "hex feature default", "a v1", "hex v0.4", "hex v01.4.3", "hex 0.4.3-rc", "hex", ""}

RECURSIVE TreeListings(_)
TreeListings(n) ==
  IF n = 0 THEN {<<>>}
  ELSE TreeListings(n - 1)
       \cup {q \o <<l>> : q \in {r \in TreeListings(n - 1) : Len(r) = n - 1},
                          l \in TreeLinePool}

ParseCalls ==
  {[fn |-> "parse_tree_lines", lines |-> ls, done |-> FALSE,
    out |-> [ok |-> TRUE, set |-> {}, error |-> NoError]] : ls \in TreeListings(MaxLines)}

CallParseTreeLines ==
  /\ call.fn = "parse_tree_lines" /\ ~call.done
  /\ call' = [call EXCEPT !.done = TRUE, !.out = ParseTreeLines(call.lines, 1, {})]
  /\ UNCHANGED run_vars

InitTreeLines == call \in ParseCalls /\ NoRun

NextTreeLines == CallParseTreeLines

SpecTreeLines == InitTreeLines /\ [][NextTreeLines]_vars

(***************************************************************************)
(* Dependency-kind intersection: filter_dep_kinds and its use by run.      *)
(***************************************************************************)
NoKinds == "<no kinds>"

\* cargo metadata for a manifest given as its dependency graph: the packages
\* of the resolved graph, over the edges of every kind that apply to the
\* platform.
cargo_metadata_graph(m, platform) ==
  LET target == IF platform = NoneString THEN "all" ELSE platform
  IN {Pkg(n, m.version[n], IF n = m.root THEN NoneString ELSE "registry") :
        n \in TreeReach(m, {"normal", "build", "dev"}, target, {m.root})}

\* filter_dep_kinds: without a kind or with All nothing is queried and the
\* map is left alone; otherwise the packages whose name and version cargo
\* tree did not report for this platform are removed from the map.
filter_dep_kinds(manifest_paths, keep_dep_kinds, packages_acc, platform) ==
  IF keep_dep_kinds \in {NoKinds, "All"}
  THEN [ok |-> TRUE, packages |-> packages_acc, queried |-> FALSE]
  ELSE LET required_packages == get_required_packages(manifest_paths, keep_dep_kinds,
                                                      platform)
       IN IF ~required_packages.ok
          THEN [ok |-> FALSE, packages |-> packages_acc, queried |-> TRUE]
          ELSE [ok |-> TRUE, queried |-> TRUE,
                packages |-> {p \in packages_acc :
                                <<p.name, ParseVersion(p.version)>>
                                  \in required_packages.set}]

\* The packages every manifest's cargo metadata reports for a platform,
\* inserted into the map.
RECURSIVE add_graph_packages_from(_, _, _, _)
add_graph_packages_from(manifest_paths, i, platform, packages_acc) ==
  IF i > Len(manifest_paths) THEN packages_acc
  ELSE add_graph_packages_from(manifest_paths, i + 1, platform,
         packages_acc \cup cargo_metadata_graph(manifest_paths[i], platform))

\* run with a dependency-kind constraint: for each platform the packages of
\* cargo metadata are added to the map and the map is then filtered with
\* the edge listing of that platform.
RECURSIVE filter_platforms_from(_, _, _, _, _)
filter_platforms_from(manifest_paths, keep_dep_kinds, platforms, i, acc) ==
  IF i > Len(platforms) \/ ~acc.ok THEN acc
  ELSE LET added == add_graph_packages_from(manifest_paths, 1, platforms[i], acc.packages)
           r == filter_dep_kinds(manifest_paths, keep_dep_kinds, added, platforms[i])
       IN filter_platforms_from(manifest_paths, keep_dep_kinds, platforms, i + 1,
            [ok |-> r.ok, packages |-> r.packages, queried |-> acc.queried \/ r.queried])

filter_platforms(manifest_paths, keep_dep_kinds, filtering, platforms) ==
  filter_platforms_from(manifest_paths, keep_dep_kinds,
                        IF filtering THEN platforms ELSE <<NoneString>>, 1,
                        [ok |-> TRUE, packages |-> {}, queried |-> FALSE])

KindPlatforms == {"x86_64-unknown-linux-gnu", "x86_64-pc-windows-gnu"}

KindCalls ==
  {[fn |-> "filter_dep_kinds", manifest_paths |-> m, keep_dep_kinds |-> k,
    filtering |-> ps # <<>>, platforms |-> ps, done |-> FALSE,
    out |-> [ok |-> TRUE, packages |-> {}, queried |-> FALSE]] :
     m \in {<<OwnManifest>>, <<BuildManifest>>, <<OwnManifest, BuildManifest>>},
     k \in DepKinds \cup {NoKinds},
     ps \in Orders(KindPlatforms)}

CallFilterDepKinds ==
  /\ call.fn = "filter_dep_kinds" /\ ~call.done
  /\ call' = [call EXCEPT !.done = TRUE,
                !.out = filter_platforms(call.manifest_paths, call.keep_dep_kinds,
                                         call.filtering, call.platforms)]
  /\ UNCHANGED run_vars

InitKinds == call \in KindCalls /\ NoRun

NextKinds == CallFilterDepKinds

SpecKinds == InitKinds /\ [][NextKinds]_vars

(***************************************************************************)
(* run, step by step.                                                      *)
(***************************************************************************)
Fail(how) == pc' = "done" /\ result' = how

\* A subprocess is started; it exits non-zero if the environment says so.
Starts(names) == ran' = ran \cup names

Exits(name) == env.exits = name

\* cargo vendor when it names every directory name-version (the layout of
\* --versioned-dirs), which is not what run expects.
cargo_vendor_versioned ==
  LET vendored == {p \in Universe : p.id # RootPackage.id /\ p.source # NoneString}
  IN [d \in {package_versioned_filename(p) : p \in vendored} |->
        MaterializedPackage(IF d \in DOMAIN cargo_vendor THEN d
                            ELSE CHOOSE n \in DOMAIN cargo_vendor :
                                   \E p \in vendored :
                                     package_versioned_filename(p) = d /\ p.name = n)]

\* Args::parse_from: clap rejects an option Args does not declare and ends
\* the process with a non-zero status.
ParseArgs ==
  /\ pc = "start"
  /\ IF args.versioned_dirs THEN Fail("err") ELSE pc' = "args" /\ UNCHANGED result
  /\ UNCHANGED <<call, args, env, config, all_packages, packages, expanded_platforms,
                 package_filenames, vendor, entries, cur, unreferenced, last,
                 dest, ran, failed>>

\* gather_config / VendorFilter::parse_args: the exclude arguments are
\* parsed; without any filter argument the manifest's metadata is read with
\* cargo metadata (it has no vendor-filter table) and the default is used.
GatherConfig ==
  /\ pc = "args"
  /\ IF \E a \in args.exclude_crate_path : ~parse_str_ok(a)
     THEN Fail("err") /\ UNCHANGED <<config, ran, failed>>
     ELSE IF ~args.platform.some /\ args.exclude_crate_path = {}
     THEN /\ Starts({"cargo metadata"})
          /\ IF Exits("cargo metadata")
             THEN failed' = "cargo metadata" /\ Fail("err") /\ UNCHANGED config
             ELSE /\ config' = DefaultConfig
                  /\ pc' = "output" /\ UNCHANGED <<result, failed>>
     ELSE /\ config' = [platforms |-> args.platform, tier |-> NoneString,
                        exclude_crate_paths |->
                          {parse_str(a) : a \in args.exclude_crate_path}]
          /\ pc' = "output" /\ UNCHANGED <<result, ran, failed>>
  /\ UNCHANGED <<call, args, env, all_packages, packages, expanded_platforms,
                 package_filenames, vendor, entries, cur, unreferenced, last, dest>>

\* The output directory is the final output path for --format=dir and
\* `vendor` in a fresh temporary directory otherwise; run refuses to work on
\* an output directory that exists.
OutputDirExists == args.format = "dir" /\ dest.state # "absent"

CheckOutputDir ==
  /\ pc = "output"
  /\ IF OutputDirExists THEN Fail("err") ELSE pc' = "metadata" /\ UNCHANGED result
  /\ UNCHANGED <<call, args, env, config, all_packages, packages, expanded_platforms,
                 package_filenames, vendor, entries, cur, unreferenced, last,
                 dest, ran, failed>>

\* get_unfiltered_packages and get_root_package: cargo metadata without a
\* platform filter.
GatherMetadata ==
  /\ pc = "metadata"
  /\ Starts({"cargo metadata"})
  /\ IF Exits("cargo metadata")
     THEN failed' = "cargo metadata" /\ Fail("err") /\ UNCHANGED all_packages
     ELSE /\ all_packages' = cargo_metadata(NoneString)
          /\ pc' = "platforms" /\ UNCHANGED <<result, failed>>
  /\ UNCHANGED <<call, args, env, config, packages, expanded_platforms,
                 package_filenames, vendor, entries, cur, unreferenced, last, dest>>

\* The target list run works with: rustc's exit status is not looked at, and
\* a rustc that fails prints no target.
TargetListOf(c) ==
  IF c.tier = NoneString /\ Exits("rustc") THEN {} ELSE get_target_list(c.tier)

\* The filtered set: one cargo metadata query per expanded platform, or one
\* unfiltered query.
ResolveInclusion ==
  /\ pc = "platforms"
  /\ IF enables_platform_filtering(config)
     THEN \E targets \in Perms(TargetListOf(config)) :
            LET platforms == PlatformsToQuery(config, targets)
                rustc == IF config.tier = NoneString THEN {"rustc"} ELSE {}
                query == IF platforms = <<>> THEN {}
                         ELSE {"cargo metadata --filter-platform"}
            IN /\ Starts(rustc \cup query)
               /\ IF query # {} /\ Exits("cargo metadata --filter-platform")
                  THEN /\ failed' = "cargo metadata --filter-platform"
                       /\ Fail("err") /\ UNCHANGED <<packages, expanded_platforms>>
                  ELSE /\ packages' = add_packages(args, TRUE, platforms)
                       /\ expanded_platforms' = [some |-> TRUE, list |-> platforms]
                       /\ failed' = IF rustc # {} /\ Exits("rustc") THEN "rustc" ELSE failed
                       /\ pc' = "vendor" /\ UNCHANGED result
     ELSE /\ Starts({"cargo metadata"})
          /\ packages' = add_packages(args, FALSE, <<>>)
          /\ pc' = "vendor" /\ UNCHANGED <<expanded_platforms, result, failed>>
  /\ UNCHANGED <<call, args, env, config, all_packages, package_filenames, vendor,
                 entries, cur, unreferenced, last, dest>>

\* cargo vendor writes every registry package into the output directory.
CargoVendor ==
  /\ pc = "vendor"
  /\ Starts({"cargo vendor"})
  /\ IF Exits("cargo vendor")
     THEN failed' = "cargo vendor" /\ Fail("err") /\ UNCHANGED <<vendor, dest>>
     ELSE /\ vendor' = IF env.layout = "predicted" THEN cargo_vendor
                       ELSE cargo_vendor_versioned
          /\ dest' = IF args.format = "dir" THEN [state |-> "dir", stream |-> <<>>]
                     ELSE dest
          /\ pc' = "filenames" /\ UNCHANGED <<result, failed>>
  /\ UNCHANGED <<call, args, env, config, all_packages, packages, expanded_platforms,
                 package_filenames, entries, cur, unreferenced, last>>

\* The directory names to keep, then delete_unreferenced_packages reads the
\* output directory's entries before it changes anything.
ComputeFilenames ==
  /\ pc = "filenames"
  /\ package_filenames' = PackageFilenames(all_packages, RootPackage, packages)
  /\ entries' = {e \in DOMAIN vendor : vendor[e].exists}
  /\ pc' = "pick"
  /\ UNCHANGED <<call, args, env, config, all_packages, packages, expanded_platforms,
                 vendor, cur, unreferenced, result, last, dest, ran, failed>>

\* The next entry of the loop, in the order read_dir gave; after the last
\* one the archive is written, if one was asked for.
PickEntry ==
  /\ pc = "pick"
  /\ IF entries = {}
     THEN pc' = "archive" /\ UNCHANGED <<entries, cur>>
     ELSE \E e \in entries :
            /\ cur' = e /\ entries' = entries \ {e}
            /\ pc' = "stub"
  /\ UNCHANGED <<call, args, env, config, all_packages, packages, expanded_platforms,
                 package_filenames, vendor, unreferenced, result, last, dest, ran, failed>>

\* An entry that is no key of package_filenames is replaced by a stub.
StubUnreferenced ==
  /\ pc = "stub"
  /\ IF cur \in DOMAIN package_filenames
     THEN pc' = "exact" /\ UNCHANGED <<vendor, unreferenced, result, last>>
     ELSE LET r == replace_with_stub(vendor, cur)
          IN /\ vendor' = r.v
             /\ last' = [op |-> "stub", entry |-> cur, order |-> <<>>,
                         before |-> vendor, res |-> r.res]
             /\ IF r.res = "ok"
                THEN /\ unreferenced' = unreferenced \cup {cur}
                     /\ pc' = "exact" /\ UNCHANGED result
                ELSE Fail(r.res) /\ UNCHANGED unreferenced
  /\ UNCHANGED <<call, args, env, config, all_packages, packages, expanded_platforms,
                 package_filenames, entries, cur, dest, ran, failed>>

\* process_excludes on the current entry with the excludes given under
\* `name`, visited in any order (they are a HashSet); `next` follows.
PruneWith(name, next) ==
  IF ExcludesOf(config, name) = {}
  THEN pc' = next /\ UNCHANGED <<vendor, result, last>>
  ELSE \E order \in Perms(ExcludesOf(config, name)) :
         LET r == process_excludes(vendor, cur, order)
         IN /\ vendor' = r.v
            /\ last' = [op |-> "prune", entry |-> cur, order |-> order,
                        before |-> vendor, res |-> r.res]
            /\ IF r.res = "ok" THEN pc' = next /\ UNCHANGED result ELSE Fail(r.res)

\* excludes.get(name): the excludes given under the entry's name.
ExactExcludes ==
  /\ pc = "exact"
  /\ PruneWith(cur, "generic")
  /\ UNCHANGED <<call, args, env, config, all_packages, packages, expanded_platforms,
                 package_filenames, entries, cur, unreferenced, dest, ran, failed>>

\* excludes.get("*"): the excludes given for every crate.
GenericExcludes ==
  /\ pc = "generic"
  /\ PruneWith("*", "pick")
  /\ UNCHANGED <<call, args, env, config, all_packages, packages, expanded_platforms,
                 package_filenames, entries, cur, unreferenced, dest, ran, failed>>

\* For the tar formats generate_tar_from writes the archive of the output
\* directory to the final output path; then run returns Ok.
WriteArchive ==
  /\ pc = "archive"
  /\ IF args.format = "dir"
     THEN /\ pc' = "done" /\ result' = "ok"
          /\ UNCHANGED <<dest, ran, failed>>
     ELSE \E enum \in EnumOrders :
            LET git == IF Exits("git") THEN NoneString ELSE GitCommitTime
                r == generate_tar_from(vendor, dest, NoneString,
                                       CompressionOf(args.format), env.epoch, git,
                                       ~Exits("zstd"), enum)
            IN /\ dest' = r.dest
               /\ ran' = ran \cup r.ran
               /\ failed' = IF r.res = "ok" THEN failed
                            ELSE IF "git" \in r.ran /\ Exits("git") THEN "git"
                            ELSE IF "zstd" \in r.ran /\ Exits("zstd") THEN "zstd"
                            ELSE failed
               /\ pc' = "done" /\ result' = r.res
  /\ UNCHANGED <<call, args, env, config, all_packages, packages, expanded_platforms,
                 package_filenames, vendor, entries, cur, unreferenced, last>>

\* The command lines and environments of the runs of the model.
RunInputs ==
  [args : [platform : PlatformArgs, exclude_crate_path : ExcludeArgs,
           format : {"dir"}, versioned_dirs : {FALSE}, sync : {<<>>}],
   env : {NominalEnv}]
  \cup
  [args : [platform : {NoPlatforms, SomePlatforms({"x86_64-unknown-linux-gnu"})},
           exclude_crate_path : {{}}, format : OutputTargets,
           versioned_dirs : {FALSE}, sync : {<<>>}],
   env : [dest : {"absent", "file", "dir"}, exits : {"none"}, layout : {"predicted"},
          epoch : {NoneString, "1700000000", "soon"}]]
  \cup
  [args : [platform : PlatformArgs, exclude_crate_path : {{}, {"*#tests"}},
           format : {"dir", "tar.zstd"}, versioned_dirs : {FALSE}, sync : {<<>>}],
   env : [dest : {"absent"}, exits : Subprocesses, layout : {"predicted"},
          epoch : {NoneString}]]
  \cup
  [args : [platform : PlatformArgs, exclude_crate_path : {{}, {"hex#tests"}},
           format : {"dir"}, versioned_dirs : BOOLEAN, sync : {<<>>}],
   env : [dest : {"absent"}, exits : {"none"}, layout : {"predicted", "versioned"},
          epoch : {NoneString}]]

\* What was at the final output path before the run.
OldBytes == <<[path |-> "old"]>>

InitialDest(e) ==
  IF e.dest = "absent" THEN NoDest ELSE [state |-> e.dest, stream |-> OldBytes]

Init ==
  /\ call = IdleCall
  /\ \E in \in RunInputs : args = in.args /\ env = in.env
  /\ config = DefaultConfig
  /\ pc = "start"
  /\ all_packages = {}
  /\ packages = {}
  /\ expanded_platforms = [some |-> FALSE, list |-> <<>>]
  /\ package_filenames = <<>>
  /\ vendor = <<>>
  /\ entries = {}
  /\ cur = ""
  /\ unreferenced = {}
  /\ result = "running"
  /\ last = NoCall
  /\ dest = InitialDest(env)
  /\ ran = {}
  /\ failed = "none"

Next ==
  \/ ParseArgs
  \/ GatherConfig
  \/ CheckOutputDir
  \/ GatherMetadata
  \/ ResolveInclusion
  \/ CargoVendor
  \/ ComputeFilenames
  \/ PickEntry
  \/ StubUnreferenced
  \/ ExactExcludes
  \/ GenericExcludes
  \/ WriteArchive

Spec == Init /\ [][Next]_vars

(***************************************************************************)
(* Claims about the TargetMatcher.                                         *)
(***************************************************************************)
\* The matching relation as the specification words it: equal segment
\* counts, and every pattern segment is `*` or the triple's segment.
SegmentMatch(t, p) ==
  LET ts == ParsedPlatform(t)
      ps == ParsedPlatform(p)
  IN /\ Len(ts) = Len(ps)
     /\ \A i \in 1..Len(ps) : ps[i] = "*" \/ ps[i] = ts[i]

NoWildcardSegment(p) == \A i \in 1..Len(ParsedPlatform(p)) : ParsedPlatform(p)[i] # "*"

\* C8: platform_matches(t, p) holds iff t and p have the same number of
\* `-`-separated segments and every segment of p is `*` or equal to t's; so
\* for a pattern without a wildcard segment it holds iff t = p, and
\* `*-unknown-linux-gnu` matches the gnu triples of x86_64 and powerpc64le
\* but not x86_64-unknown-linux-gnux32 nor a triple of another segment count.
C8_PlatformMatching ==
  (call.fn = "platform_matches" /\ call.done) =>
    /\ call.matched <=> SegmentMatch(call.triple, call.pattern)
    /\ NoWildcardSegment(call.pattern) =>
         (call.matched <=> call.triple = call.pattern)
    /\ call.pattern = "*-unknown-linux-gnu" =>
         (call.matched <=> call.triple \in {"x86_64-unknown-linux-gnu",
                                           "powerpc64le-unknown-linux-gnu"})

C8_Witness ==
  /\ call.fn = "platform_matches" /\ call.done
  /\ call.pattern = "*-unknown-linux-gnu"
  /\ call.triple = "powerpc64le-unknown-linux-gnu"
  /\ call.matched

\* C9: the expanded list holds every pattern without a wildcard unchanged
\* (also one no known triple equals), for every pattern with a wildcard the
\* known triples that match it, and nothing else; one literal pattern
\* expands to exactly itself.
C9_ExpandContents ==
  (call.fn = "expand_platforms" /\ call.done) =>
    LET out == Range(call.expanded)
        known == Range(call.targets)
        literals == {p \in call.platforms : ~Contains(p, "*")}
        globs == {p \in call.platforms : Contains(p, "*")}
    IN /\ literals \subseteq out
       /\ \A p \in globs : \A t \in known : SegmentMatch(t, p) => t \in out
       /\ \A x \in out :
            \/ x \in literals
            \/ x \in known /\ \E p \in globs : SegmentMatch(x, p)
       /\ \A p \in literals : call.platforms = {p} => call.expanded = <<p>>

C9_Witness ==
  /\ call.fn = "expand_platforms" /\ call.done
  /\ call.platforms = {"riscv64-custom-none-elf", "*-unknown-linux-gnu"}
  /\ "riscv64-custom-none-elf" \notin Range(call.targets)
  /\ Range(call.expanded) = {"riscv64-custom-none-elf", "x86_64-unknown-linux-gnu",
                             "powerpc64le-unknown-linux-gnu"}

\* C10: no triple occurs more than once in the expanded platform list.
C10_ExpandDeduplicated ==
  (call.fn = "expand_platforms" /\ call.done) =>
    \A i, j \in 1..Len(call.expanded) : i # j => call.expanded[i] # call.expanded[j]

(***************************************************************************)
(* Claims about the reconciliation of the vendor directory.                *)
(***************************************************************************)
FirstName(path) == Split(path, "/")[1]

\* The files of a package directory under src/.
SourceFilesOf(pkg) == {f \in DOMAIN pkg.files : FirstName(f) = "src"}

\* A stub: the only source file is a zero-byte src/lib.rs.
IsStub(pkg) ==
  /\ pkg.exists
  /\ SourceFilesOf(pkg) = {"src/lib.rs"}
  /\ pkg.files["src/lib.rs"] = <<>>

\* The excludes a run applies to an entry: those given under its name and
\* those given under `*`.
AppliedExcludes(e) == ExcludesOf(config, e) \cup ExcludesOf(config, "*")

\* A file of the materialized entry that an applied exclude names (the file
\* itself or a directory above it).
NamedByExclude(e, f) ==
  \E x \in AppliedExcludes(e) :
    LET found == Walk(cargo_vendor, <<e>>, Split(x, "/"), 1)
    IN found.kind \in {"dir", "file"} /\ IsPrefix(found.loc, <<e>> \o Components(f))

\* Not stubbed: the materialized files are kept with their content, apart
\* from the excluded paths.
IsKept(e) ==
  /\ vendor[e].exists
  /\ \A f \in DOMAIN cargo_vendor[e].files :
       \/ NamedByExclude(e, f)
       \/ f \in DOMAIN vendor[e].files /\ vendor[e].files[f] = cargo_vendor[e].files[f]

\* C1: after a successful run every entry that is no key of the
\* directory-key map is a stub (its only source file is a zero-byte
\* src/lib.rs) and every entry that is a key is not stubbed; filtering to
\* x86_64-unknown-linux-gnu keeps the Linux-only inotify and stubs the
\* Windows-only windows-sys.
C1_StubIffNotKey ==
  (pc = "done" /\ result = "ok") =>
    /\ \A e \in DOMAIN vendor :
         IF e \in DOMAIN package_filenames THEN IsKept(e) ELSE IsStub(vendor[e])
    /\ args.platform = SomePlatforms({"x86_64-unknown-linux-gnu"}) =>
         /\ "inotify" \in DOMAIN package_filenames
         /\ "windows-sys" \notin DOMAIN package_filenames

\* C2 as stated: after a successful replace_with_stub exactly one source
\* file remains, of zero bytes, and the checksum file map has exactly one
\* entry, the digest of the empty content.
C2_StubOneChecksumEntry ==
  (last.op = "stub" /\ last.res = "ok") =>
    LET pkg == vendor[last.entry]
    IN /\ IsStub(pkg)
       /\ Cardinality(DOMAIN pkg.cksum.files) = 1
       /\ \A k \in DOMAIN pkg.cksum.files : pkg.cksum.files[k] = sha256_hexdigest(<<>>)

\* C2 amended: after a successful replace_with_stub the directory holds
\* exactly the manifest and a zero-byte src/lib.rs, its only source file, and
\* the checksum file map has exactly these two entries: src/lib.rs with the
\* digest of the empty content and Cargo.toml with the digest of the manifest
\* as rewritten.
C2_StubTwoChecksumEntries ==
  (last.op = "stub" /\ last.res = "ok") =>
    LET pkg == vendor[last.entry]
    IN /\ IsStub(pkg)
       /\ DOMAIN pkg.files = {CARGO_TOML, "src/lib.rs"}
       /\ pkg.cksum.state = "ok"
       /\ DOMAIN pkg.cksum.files = {CARGO_TOML, "src/lib.rs"}
       /\ pkg.cksum.files["src/lib.rs"] = sha256_hexdigest(<<>>)
       /\ pkg.cksum.files[CARGO_TOML] = sha256_hexdigest(pkg.files[CARGO_TOML])

C2_Witness ==
  /\ last.op = "stub" /\ last.res = "ok" /\ last.entry = "windows-sys"
  /\ Cardinality(SourceFilesOf(last.before["windows-sys"])) = 2
  /\ pc = "exact"

\* C3: replace_with_stub leaves the aggregate package digest as it read it:
\* the `package` value of the checksum file written equals the value of the
\* one read, the member being a digest, null or absent.
C3_StubKeepsPackageDigest ==
  (last.op = "stub" /\ last.res = "ok") =>
    ParseChecksums(vendor[last.entry].cksum).package
      = ParseChecksums(last.before[last.entry].cksum).package

C3_Witness ==
  /\ last.op = "stub" /\ last.res = "ok" /\ last.entry = "inotify"
  /\ last.before["inotify"].cksum.package = "fdd168d9"
  /\ vendor["inotify"].cksum.package = "fdd168d9"

\* C4: after every successful replace_with_stub or process_excludes the keys
\* of the package's checksum file map are exactly the files left in the
\* package directory.
C4_ChecksumsMatchFiles ==
  (last.op # "none" /\ last.res = "ok" /\ vendor[last.entry].exists) =>
    /\ vendor[last.entry].cksum.state = "ok"
    /\ DOMAIN vendor[last.entry].cksum.files = DOMAIN vendor[last.entry].files

\* C5: after process_excludes has applied the exclude `tests` to a retained
\* package whose directory holds `tests`, the directory has no `tests` and
\* no checksum key has `tests` as its first component; with `tests` the only
\* exclude of the pass every other key is kept (tests2/x, src/tests.rs).
C5_PruneTests ==
  (/\ last.op = "prune" /\ last.res = "ok"
   /\ last.entry \in DOMAIN package_filenames
   /\ "tests" \in Range(last.order)
   /\ KindOf(last.before, <<last.entry, "tests">>) = "dir") =>
    LET pkg == vendor[last.entry]
        was == last.before[last.entry]
    IN /\ KindOf(vendor, <<last.entry, "tests">>) = "absent"
       /\ \A f \in DOMAIN pkg.files : FirstName(f) # "tests"
       /\ \A k \in DOMAIN pkg.cksum.files : FirstName(k) # "tests"
       /\ last.order = <<"tests">> =>
            /\ DOMAIN pkg.cksum.files =
                 {k \in DOMAIN was.cksum.files : FirstName(k) # "tests"}
            /\ \A k \in DOMAIN pkg.cksum.files : pkg.cksum.files[k] = was.cksum.files[k]

C5_Witness ==
  /\ last.op = "prune" /\ last.res = "ok" /\ last.entry = "hex"
  /\ "hex" \in DOMAIN package_filenames
  /\ last.order = <<"tests">>
  /\ "tests/version.rs" \in DOMAIN last.before["hex"].cksum.files
  /\ {"tests2/x", "src/tests.rs"} \subseteq DOMAIN vendor["hex"].cksum.files

\* Glob matching of one path: `*` stands for any run of characters other
\* than `/`, every other character for itself.
RECURSIVE GlobFrom(_, _, _, _)
GlobFrom(p, i, s, j) ==
  IF i > Len(p) THEN j > Len(s)
  ELSE IF Char(p, i) = "*"
    THEN \/ GlobFrom(p, i + 1, s, j)
         \/ j <= Len(s) /\ Char(s, j) # "/" /\ GlobFrom(p, i, s, j + 1)
  ELSE j <= Len(s) /\ Char(s, j) = Char(p, i) /\ GlobFrom(p, i + 1, s, j + 1)

GlobMatch(p, s) == GlobFrom(p, 1, s, 1)

\* C6: exclude patterns may contain globs: after a successful run no file of
\* a retained package glob-matches a pattern applied to it (hex#*.md removes
\* hex/README.md and hex/CHANGELOG.md) and no checksum entry does.
C6_GlobExcludes ==
  (pc = "done" /\ result = "ok") =>
    \A e \in DOMAIN package_filenames :
      \A x \in AppliedExcludes(e) :
        Contains(x, "*") =>
          /\ \A f \in DOMAIN vendor[e].files : ~GlobMatch(x, f)
          /\ \A k \in DOMAIN vendor[e].cksum.files : ~GlobMatch(x, k)

LeadsWithSlash(x) == Len(x) > 0 /\ SubSeq(x, 1, 1) = "/"

FirstAbsolute(order) ==
  CHOOSE i \in 1..Len(order) :
    LeadsWithSlash(order[i]) /\ \A j \in 1..(i - 1) : ~LeadsWithSlash(order[j])

\* The file f of the entry lies at or under the path the exclude x names in
\* the tree v.
NamedIn(v, entry, x, f) ==
  LET found == Walk(v, <<entry>>, Split(x, "/"), 1)
  IN found.kind \in {"dir", "file"} /\ IsPrefix(found.loc, <<entry>> \o Components(f))

\* C7 as stated: whenever the excludes applied to a package include an
\* absolute path, process_excludes returns an error without having removed
\* any file of the package or changed its checksum file.
C7_AbsoluteRejectedUntouched ==
  (last.op = "prune" /\ \E i \in 1..Len(last.order) : LeadsWithSlash(last.order[i])) =>
    /\ last.res = "err"
    /\ vendor[last.entry] = last.before[last.entry]

\* C7 amended: whenever the excludes applied to a package include an
\* absolute path, process_excludes returns an error and does not rewrite the
\* checksum file; it has removed nothing when the absolute path is the first
\* one visited, and otherwise exactly the paths named by the relative
\* excludes visited before it, which are not restored.
C7_AbsoluteRejected ==
  (last.op = "prune" /\ \E i \in 1..Len(last.order) : LeadsWithSlash(last.order[i])) =>
    LET pkg == vendor[last.entry]
        was == last.before[last.entry]
        stop == FirstAbsolute(last.order)
    IN /\ last.res = "err"
       /\ pkg.cksum = was.cksum
       /\ DOMAIN pkg.files =
            {f \in DOMAIN was.files :
               \A j \in 1..(stop - 1) : ~NamedIn(last.before, last.entry, last.order[j], f)}
       /\ \A f \in DOMAIN pkg.files : pkg.files[f] = was.files[f]
       /\ stop = 1 => vendor = last.before

C7_Witness ==
  /\ last.op = "prune" /\ last.res = "err" /\ last.entry = "hex"
  /\ last.order = <<"tests", "/usr/share">>
  /\ "tests/version.rs" \in DOMAIN last.before["hex"].files
  /\ "tests/version.rs" \notin DOMAIN vendor["hex"].files
  /\ "tests/version.rs" \in DOMAIN vendor["hex"].cksum.files

(***************************************************************************)
(* Claims about the directory keys.                                        *)
(***************************************************************************)
\* The included packages of a name in a run.
IncludedOf(name) ==
  {p \in pkgs_by_name(all_packages, RootPackage, name) : p.id \in packages}

IncludedNames == {p.name : p \in {q \in all_packages : q.id \in packages}}

HasKey(k, p) == k \in DOMAIN package_filenames /\ package_filenames[k] = p

\* C11: a run without failing collaborators ends successfully, and for a
\* name with exactly two included versions the higher one has the bare name
\* as directory key and the lower one name-version; with the
\* always-versioned policy (--versioned-dirs) both have name-version, and so
\* has the only version of a name.
C11_VersionedDirectoryKeys ==
  (/\ pc = "done" /\ env.exits = "none" /\ env.dest = "absent"
   /\ args.format = "dir" /\ args.exclude_crate_path = {}) =>
    /\ result = "ok"
    /\ \A name \in IncludedNames :
         LET inc == IncludedOf(name)
             sorted == SortByVersionDesc(inc)
         IN /\ (Cardinality(inc) = 2 /\ ~args.versioned_dirs) =>
                 /\ HasKey(name, sorted[1])
                 /\ HasKey(package_versioned_filename(sorted[2]), sorted[2])
            /\ (Cardinality(inc) \in {1, 2} /\ args.versioned_dirs) =>
                 /\ name \notin DOMAIN package_filenames
                 /\ \A p \in inc : HasKey(package_versioned_filename(p), p)

\* The registry packages of a name among the packages P.
GroupOf(P, name) == {p \in P : p.name = name /\ p.id # RootPackage.id /\ p.source # NoneString}

IsHighest(p, group) == \A q \in group : ~VersionLess(p.version, q.version)

\* The key a package is filed under when it is grouped with `group`.
KeyIn(p, group) == IF IsHighest(p, group) THEN p.name ELSE package_versioned_filename(p)

CallIncluded == {p \in call.all_packages : p.id \in call.packages}

\* C12 as stated: the included packages are grouped by name; the only
\* included package of a name has the bare name as key, and of several
\* included versions the highest included one, whatever other versions the
\* unfiltered packages hold.
C12_KeysByIncludedGroup ==
  (call.fn = "package_filenames" /\ call.done) =>
    \A p \in {q \in CallIncluded : q.id # RootPackage.id /\ q.source # NoneString} :
      /\ KeyIn(p, GroupOf(CallIncluded, p.name)) \in DOMAIN call.filenames
      /\ call.filenames[KeyIn(p, GroupOf(CallIncluded, p.name))] = p

\* C12 amended: the unfiltered packages (the root and local packages left
\* out) are grouped by name; the highest version of a name among them has
\* the bare name as key if it is included, every other included version has
\* name-version, and there is no other key.
C12_KeysByUniverseGroup ==
  (call.fn = "package_filenames" /\ call.done) =>
    LET kept == {p \in CallIncluded : p.id # RootPackage.id /\ p.source # NoneString}
        key(p) == KeyIn(p, GroupOf(call.all_packages, p.name))
    IN /\ DOMAIN call.filenames = {key(p) : p \in kept}
       /\ \A p \in kept : call.filenames[key(p)] = p

C12_Witness ==
  /\ call.fn = "package_filenames" /\ call.done
  /\ {p.version : p \in GroupOf(call.all_packages, "hex")} = {"0.10.0", "0.4.3"}
  /\ {p.version : p \in GroupOf(CallIncluded, "hex")} = {"0.4.3"}
  /\ DOMAIN call.filenames = {"hex-0.4.3"}

(***************************************************************************)
(* Claims about the archive.                                               *)
(***************************************************************************)
\* C13: two generate_tar_from runs over the same tree with the same
\* timestamp source, prefix and compression write the same bytes, whatever
\* order read_dir gives the entries in.
C13_ReproducibleArchive ==
  (call.fn = "generate_tar_from" /\ call.done[1] /\ call.done[2]) =>
    /\ call.out[1].res = "ok"
    /\ call.out[1] = call.out[2]

C13_Witness ==
  /\ call.fn = "generate_tar_from" /\ call.done[1] /\ call.done[2]
  /\ call.enum = <<"desc", "rot">>
  /\ DOMAIN call.tree = {"hex", "hex-0.3.2", "inotify"}
  /\ call.compress = "Gzip"
  /\ call.out[1].dest.state = "file"
  /\ Len(call.out[1].dest.stream[1].of) > 20

\* The entries of the first run's tar stream, for an uncompressed archive.
FirstStream == call.out[1].dest.stream

\* C14 as stated: of any two entries the one whose whole path string is
\* lexicographically smaller is written first.
C14_FullPathOrder ==
  (call.fn = "generate_tar_from" /\ call.done[1] /\ call.compress = "None") =>
    \A i, j \in 1..Len(FirstStream) :
      i < j => StrLess(FirstStream[i].path, FirstStream[j].path)

\* The order of two paths component by component: the first differing name
\* decides, and a directory precedes what is below it.
RECURSIVE ComponentsLess(_, _)
ComponentsLess(a, b) ==
  IF a = <<>> THEN b # <<>>
  ELSE IF b = <<>> THEN FALSE
  ELSE IF Head(a) = Head(b) THEN ComponentsLess(Tail(a), Tail(b))
  ELSE StrLess(Head(a), Head(b))

\* C14 amended: the entries are written depth first, the entries of each
\* directory in the byte order of their file names: a directory is written
\* before what is below it, and all of that before the directory's later
\* siblings (hex, hex/src, then hex-0.3.2).
C14_DepthFirstNameOrder ==
  (call.fn = "generate_tar_from" /\ call.done[1] /\ call.compress = "None") =>
    \A i, j \in 1..Len(FirstStream) :
      i < j => ComponentsLess(Split(FirstStream[i].path, "/"),
                              Split(FirstStream[j].path, "/"))

C14_Witness ==
  /\ call.fn = "generate_tar_from" /\ call.done[1] /\ call.compress = "None"
  /\ call.prefix = NoneString
  /\ \E i, j \in 1..Len(FirstStream) :
       /\ i < j
       /\ FirstStream[i].path = "./hex/src"
       /\ FirstStream[j].path = "./hex-0.3.2"

(***************************************************************************)
(* Claims about the errors of a run.                                       *)
(***************************************************************************)
\* C15: when the final output path exists at the start of a run, the run
\* fails, cargo vendor is never started and what is at the path is left as
\* it was, for every --format.
C15_OutputConflict ==
  env.dest # "absent" =>
    /\ "cargo vendor" \notin ran
    /\ dest = InitialDest(env)
    /\ pc = "done" => result = "err"

\* C17: a subprocess of a run that exits non-zero makes the run abort with
\* an error, and no later stage runs after it: once a subprocess has failed
\* the run is over and its result is an error.
C17_FailFast ==
  failed # "none" => pc = "done" /\ result = "err"

\* C18: when after materialization a key of the directory-key map has no
\* top-level entry of that name in the output directory, the run fails
\* instead of completing successfully.
MissingKeys ==
  {k \in DOMAIN package_filenames : k \notin DOMAIN vendor \/ ~vendor[k].exists}

C18_LayoutError ==
  (pc = "done" /\ "cargo vendor" \in ran /\ failed = "none" /\ MissingKeys # {}) =>
    result = "err"

\* What cargo vendor wrote in an environment.
MaterializedBy(e) == IF e.layout = "predicted" THEN cargo_vendor ELSE cargo_vendor_versioned

\* An exclude rule has been applied to a directory: what its path named in
\* the materialized directory is gone.
RuleApplied(d, x) ==
  LET found == Walk(MaterializedBy(env), <<d>>, Split(x.exclude, "/"), 1)
  IN found.kind \in {"dir", "file"} => KindOf(vendor, found.loc) = "absent"

\* The rules of a retained directory by package name: those given under the
\* name of the package it holds and those given under `*`.
RulesByName(d) ==
  {x \in config.exclude_crate_paths : x.name \in {package_filenames[d].name, "*"}}

\* C19: after a successful run every rule (N, path) has been applied to
\* every retained directory that holds a package named N, a directory
\* N-version of a lower version included, and every rule with name `*` to
\* every retained directory; a file that no rule of the package's name nor
\* of `*` names is still there.
C19_ExcludeByPackageName ==
  (pc = "done" /\ result = "ok") =>
    \A d \in DOMAIN package_filenames \ MissingKeys :
      /\ \A x \in RulesByName(d) : RuleApplied(d, x)
      /\ \A f \in DOMAIN MaterializedBy(env)[d].files :
           (\A x \in RulesByName(d) :
              LET found == Walk(MaterializedBy(env), <<d>>, Split(x.exclude, "/"), 1)
              IN ~(found.kind \in {"dir", "file"}
                   /\ IsPrefix(found.loc, <<d>> \o Components(f)))) =>
             f \in DOMAIN vendor[d].files

(***************************************************************************)
(* Claims about the dependency kinds.                                      *)
(***************************************************************************)
RequiredSet(k) == call.required[k].set

AllKindsComputed ==
  /\ call.fn = "get_required_packages" /\ call.done = DepKinds
  /\ \A k \in DepKinds : call.required[k].ok

\* C16 as stated: for a fixed platform and manifest the set of kind no-build
\* is at least as large as the set of kind build and as the set of kind
\* normal, and the set of kind all contains the set of every other kind.
C16_NoBuildAtLeastBuild ==
  AllKindsComputed =>
    /\ Cardinality(RequiredSet("NoBuild")) >= Cardinality(RequiredSet("Build"))
    /\ Cardinality(RequiredSet("NoBuild")) >= Cardinality(RequiredSet("Normal"))
    /\ \A k \in DepKinds : RequiredSet(k) \subseteq RequiredSet("All")

\* C16 amended: for a fixed platform and manifest the set of kind no-build
\* contains the set of kind normal, the set of kind no-dev contains the set
\* of kind build, and the set of kind all contains the set of every other
\* kind; for the project's own manifest normal is smaller than no-build and
\* build smaller than no-dev.
C16_KindsMonotone ==
  AllKindsComputed =>
    /\ RequiredSet("Normal") \subseteq RequiredSet("NoBuild")
    /\ RequiredSet("Build") \subseteq RequiredSet("NoDev")
    /\ \A k \in DepKinds : RequiredSet(k) \subseteq RequiredSet("All")
    /\ call.manifest_paths = <<OwnManifest>> =>
         /\ Cardinality(RequiredSet("Normal")) < Cardinality(RequiredSet("NoBuild"))
         /\ Cardinality(RequiredSet("Build")) < Cardinality(RequiredSet("NoDev"))

C16_Witness ==
  /\ AllKindsComputed
  /\ call.manifest_paths = <<OwnManifest>>
  /\ call.platform = "x86_64-pc-windows-gnu"
  /\ <<"windows-sys", <<0, 52, 0>>>> \in RequiredSet("Normal")
  /\ Cardinality(RequiredSet("NoBuild")) = 5
  /\ Cardinality(RequiredSet("Build")) = 2

(***************************************************************************)
(* Claims about the InclusionResolver.                                     *)
(***************************************************************************)
\* The packages cargo metadata returns over the manifests and the platforms
\* of a call (the one unfiltered query without platform filtering).
QueriedPackages ==
  LET manifests == {NoneString} \cup Range(call.a.sync)
      platforms == IF call.filtering THEN Range(call.platforms) ELSE {NoneString}
  IN UNION {{p.id : p \in cargo_metadata_of(m, t)} : m \in manifests, t \in platforms}

\* C20: the filtered set is the union, over every manifest (the primary one
\* and each --sync manifest) and every platform of the expanded list (or the
\* one unfiltered query), of the ids cargo metadata returns; processing the
\* platforms or manifests in another order gives the same set.
C20_InclusionIsUnion ==
  (call.fn = "add_packages" /\ call.done) =>
    /\ call.packages = QueriedPackages
    /\ call.again.done => call.again.packages = call.packages

C20_Witness ==
  /\ call.fn = "add_packages" /\ call.done /\ call.again.done
  /\ call.filtering
  /\ call.platforms = <<"x86_64-pc-windows-gnu", "x86_64-unknown-linux-gnu">>
  /\ call.again.platforms = <<"x86_64-unknown-linux-gnu", "x86_64-pc-windows-gnu">>
  /\ call.a.sync = <<"helper/Cargo.toml", "tools/Cargo.toml">>
  /\ call.again.a.sync = <<"tools/Cargo.toml", "helper/Cargo.toml">>
  /\ {"inotify 0.10.2", "hex 0.3.2", "cc 1.0.83", "tool 0.1.0"} \subseteq call.packages

(***************************************************************************)
(* Claims about the dependency-kind intersection.                          *)
(***************************************************************************)
KindManifests == Range(call.manifest_paths)

KindQueries == IF call.filtering THEN Range(call.platforms) ELSE {NoneString}

\* The packages cargo metadata returns for some manifest and platform.
GraphQueried == UNION {cargo_metadata_graph(m, t) : m \in KindManifests, t \in KindQueries}

\* The pairs of name and version the edge listing of the configured kind
\* reports for some manifest and platform.
EdgeListed ==
  UNION {get_required_packages(<<m>>, call.keep_dep_kinds, t).set :
           m \in KindManifests, t \in KindQueries}

\* C21: with a kind other than all, a package is in the final inclusion set
\* iff the graph query returned it for some manifest and platform and the
\* edge listing of the kind reports its name and version for some manifest
\* and platform; with kind all or no kind the set is the graph query's and
\* no edge listing is queried.
C21_KindIntersection ==
  (call.fn = "filter_dep_kinds" /\ call.done /\ call.out.ok) =>
    IF call.keep_dep_kinds \in {NoKinds, "All"}
    THEN call.out.packages = GraphQueried /\ ~call.out.queried
    ELSE call.out.packages =
           {p \in GraphQueried : <<p.name, ParseVersion(p.version)>> \in EdgeListed}

(***************************************************************************)
(* Claims about the parsing of the edge listing.                           *)
(***************************************************************************)
LineTokens(l) == Split(l, " ")

\* A line with a version token that is too short or has the marker.
SkippedLine(l) ==
  /\ Len(LineTokens(l)) >= 2
  /\ (Len(LineTokens(l)[2]) < 5 \/ str_contains(LineTokens(l)[2], "feature"))

\* A line in the format of the edge listing: a name, then a version token
\* with the prefix `v`.
VersionLine(l) ==
  /\ Len(LineTokens(l)) >= 2 /\ ~SkippedLine(l)
  /\ Char(LineTokens(l)[2], 1) = "v"

StrippedVersion(l) == SubSeq(LineTokens(l)[2], 2, Len(LineTokens(l)[2]))

GoodLine(l) == VersionLine(l) /\ semver_parses(StrippedVersion(l))

\* C22: a line whose version token is shorter than 5 or contains `feature`
\* is skipped and adds no pair; of every other line the `v` is stripped and
\* the pair of name and version is added; the first version that is no
\* semantic version makes the parsing return an error that names the package
\* and the text; skipped lines never make it fail.
C22_EdgeListingParsing ==
  (call.fn = "parse_tree_lines" /\ call.done) =>
    LET ls == call.lines
        lines == {ls[i] : i \in 1..Len(ls)}
        bad == {i \in 1..Len(ls) : ~SkippedLine(ls[i]) /\ ~GoodLine(ls[i])}
        first == CHOOSE i \in bad : \A j \in bad : i <= j
    IN /\ call.out.ok =>
            call.out.set = {<<LineTokens(l)[1], semver_parse(StrippedVersion(l))>> :
                              l \in {x \in lines : ~SkippedLine(x)}}
       /\ bad = {} => call.out.ok
       /\ (bad # {} /\ VersionLine(ls[first])) =>
            /\ ~call.out.ok
            /\ call.out.error = [kind |-> "Cannot parse version",
                                 text |-> StrippedVersion(ls[first]),
                                 package |-> LineTokens(ls[first])[1]]

C22_Witness ==
  /\ call.fn = "parse_tree_lines" /\ call.done
  /\ call.lines = <<"hex feature default", "hex v01.4.3">>
  /\ ~call.out.ok
  /\ call.out.error.package = "hex" /\ call.out.error.text = "01.4.3"

(***************************************************************************)
(* Claims about the keys of package_filenames.                             *)
(***************************************************************************)
\* The included packages that are vendored: not the root, not local.
CallKept == {p \in CallIncluded : p.id # RootPackage.id /\ p.source # NoneString}

C29_KeysOfIncludedRegistryPackages ==
  (call.fn = "package_filenames" /\ call.done) =>
    \A k \in DOMAIN call.filenames :
      LET p == call.filenames[k]
      IN /\ p \in call.all_packages /\ p.id \in call.packages
         /\ p.source # NoneString
         /\ p.id # RootPackage.id
         /\ k \in {p.name, package_versioned_filename(p)}

C29_Witness ==
  /\ call.fn = "package_filenames" /\ call.done
  /\ call.all_packages = KeyPool \cup {RootPackage}
  /\ call.packages = {RootPackage.id, LocalPackage.id, "hex 0.3.2", "inotify 0.10.2"}
  /\ DOMAIN call.filenames = {"hex-0.3.2", "inotify"}

(***************************************************************************)
(* Claims about the excludes of a run.                                     *)
(***************************************************************************)
\* C24: process_excludes is called only on entries whose name is a key of
\* the directory-key map, never on an entry the run has replaced by a stub,
\* so the files and the checksum entries of a stub stay as replace_with_stub
\* wrote them.
C24_ExcludesOnlyOnRetained ==
  /\ last.op = "prune" => last.entry \in DOMAIN package_filenames
  /\ \A e \in unreferenced :
       /\ "src/lib.rs" \in DOMAIN vendor[e].files
       /\ "src/lib.rs" \in DOMAIN vendor[e].cksum.files

\* C25 as stated: for any excludes given under the entry's name and under
\* `*`, the two passes leave the files, the checksum file and the result
\* that one process_excludes pass with the excludes of both leaves.
C25_TwoPassesAsUnion ==
  (call.fn = "passes" /\ call.done) =>
    /\ call.two.res = call.one.res
    /\ call.two.v = call.one.v

\* C26: the assertion of process_excludes never fails: a pass in which a
\* path was deleted removes at least one checksum entry, in the pass for the
\* entry's name, in the pass for `*` that follows it and in one pass alone.
C26_AssertionNeverFails ==
  (call.fn = "passes" /\ call.done) =>
    call.two.res # "panic" /\ call.one.res # "panic"

\* What the passes did to the tree cargo vendor wrote.
PassResults == {call.two.v, call.one.v}

\* C28: process_excludes deletes only inside the entry it is called on:
\* whatever the excludes (the empty path and paths with `..` among them),
\* the other entries of the output directory are as cargo vendor wrote them
\* and the entry's directory is still there.
C28_PruneInsidePackage ==
  (call.fn = "passes" /\ call.done) =>
    \A v \in PassResults :
      /\ v[call.entry].exists
      /\ \A e \in DOMAIN cargo_vendor \ {call.entry} : v[e] = cargo_vendor[e]

(***************************************************************************)
(* Claims about the errors of replace_with_stub.                           *)
(***************************************************************************)
\* C27: replace_with_stub fails when the manifest is unreadable or does not
\* parse or when the checksum file is missing or does not parse, and then
\* it has deleted nothing: the tree is as it was; on a whole package it
\* succeeds.
C27_StubFailsBeforeDeleting ==
  (call.fn = "replace_with_stub" /\ call.done) =>
    IF call.manifest = "none" /\ call.checksums = "none"
    THEN call.out.res = "ok" /\ IsStub(call.out.v[call.entry])
    ELSE call.out.res = "err" /\ call.out.v = call.tree

C27_Witness ==
  /\ call.fn = "replace_with_stub" /\ call.done
  /\ call.entry = "hex" /\ call.manifest = "none" /\ call.checksums = "unparseable"
  /\ call.out.res = "err"
  /\ "tests/version.rs" \in DOMAIN call.out.v["hex"].files
  /\ call.out.v["hex"].cksum.state = "unparseable"

(***************************************************************************)
(* Claims about a tier given with an empty platform set.                   *)
(***************************************************************************)
\* The filtered set of the same tier when no platform set is given.
TierOnly(c) ==
  filtered_set(DefaultArgs, [c EXCEPT !.platforms = NoPlatforms],
               SortedSeq(get_target_list(c.tier)))

\* C30: with a tier and a platform set that is present but empty, the
\* filtered set is the one computed over all targets of the tier, as when no
\* platform set is given, and platform filtering enabled by a tier never
\* runs over an empty list of platforms.
C30_EmptyPlatformsUseTier ==
  (call.fn = "filtered_set" /\ call.done /\ call.config.tier # NoneString) =>
    /\ call.out.expanded_platforms.list # <<>>
    /\ call.config.platforms = SomePlatforms({}) =>
         /\ call.out.packages = TierOnly(call.config).packages
         /\ Range(call.out.expanded_platforms.list) = TierTargets(call.config.tier)

====
